---- MODULE Spec2Model ----
(***************************************************************************)
(* RBAC core of the ERP backend: the relational store (roles, permissions, *)
(* users, pivot tables, access tokens), the per-user permission cache, the *)
(* CheckPermission middleware and the role / user / auth services, as a    *)
(* state machine.  Every request is run by a worker; one action is one     *)
(* database statement group (a transaction, or the statements of a service *)
(* call that the code runs back to back) or one cache operation.           *)
(***************************************************************************)
EXTENDS Integers, Sequences, FiniteSets, Bags, TLC

\* ------------------------------------------------------------------ bounds
NumPerms == 2      \* permission rows of the seeded table that are modelled
NumRoles == 2      \* role ids the auto-increment may hand out
NumUsers == 2      \* user ids the auto-increment may hand out
NumWorkers == 2    \* concurrent request-handling workers
MaxIds == 2        \* longest id list a request carries
MaxTokens == 1     \* personal access tokens kept per user
MaxAudit == 2      \* rows the audit_logs table takes
MaxLogged == 1      \* rows written where every input of an audit operation is tried

PermIds == 1..NumPerms
RoleIds == 1..NumRoles
UserIds == 1..NumUsers

\* Permission names in seeding order (Permission::firstOrCreate per entry).
PermissionData ==
  <<"users.view", "users.create", "users.edit", "users.delete",
    "roles.view", "roles.create", "roles.edit", "roles.delete",
    "permissions.view", "audit_logs.view", "settings.view", "settings.edit">>

\* name column of the permission row with the given id
PermName(id) == PermissionData[id]

\* Role names: the seeded system role and the names a request may carry.
SuperAdminName == "Super Admin"
SuperAdminDescription == "Full system access"
RoleNames == {"Editor", "Viewer"}

Emails == {"admin@example.com", "a@x.com"}
AdminEmail == "admin@example.com"

\* keys of system_settings rows: one the settings form edits and one that is
\* on the audit log's list of sensitive fields
SettingKeys == {"company_name", "api_token"}
\* the cache key suffix of the aggregate entry, CACHE_PREFIX . 'all'
AllKey == "all"

\* id lists a request may carry: any order, repetition, and one id past the table
IdLists(S) == UNION {[1..n -> S] : n \in 0..MaxIds}
PermIdLists == IdLists(1..(NumPerms + 1))
RoleIdLists == IdLists(RoleIds)

VARIABLES
  roles,            \* roles table: id -> row (present, name, is_system)
  roleSeq,          \* auto-increment counter of the roles table
  permission_role,  \* pivot table: set of <<role_id, permission_id>>
  role_user,        \* pivot table: set of <<role_id, user_id>>
  users,            \* users table: id -> row (present, email, deleted, verified, active)
  tokens,           \* personal_access_tokens: user id -> number of token rows
  cache,            \* Cache store, key user_permissions:{id} -> entry (hit, val)
  attempts,         \* Cache store, key login_attempts:{email} -> failed logins counted
  audit_logs,       \* audit_logs table: the rows in insertion order
  settings,         \* system_settings table: key -> row (present, value, type)
  setting_cache,    \* Cache store, keys system_setting_{key} and system_setting_all
  auth_store,       \* frontend: the state of useAuthStore
  passwords,        \* users table, column password: id -> the hash stored
  email_verification_tokens,  \* table: the emails that have a row
  password_reset_tokens,      \* table: email -> row (token, expired), token 0: no
                              \* row; issued: the tokens made for the email so far
  password_checks,  \* per email, the Hash::check calls login made that failed
  clock,            \* the time Cache reads, in units of CACHE_TTL (now), and per
                    \* user the time of the last roles()->sync (changed)
  reqs,             \* bag of the requests in flight, one per busy worker: each
                    \* a record of its position (pc) and its local variables
  last              \* the response most recently returned by a worker

vars == <<roles, roleSeq, permission_role, role_user, users, tokens, cache, attempts,
          audit_logs, settings, setting_cache, auth_store, passwords,
          email_verification_tokens, password_reset_tokens, password_checks, clock,
          reqs, last>>
\* what AuthService keeps beside the users table and the login attempts
authVars == <<passwords, email_verification_tokens, password_reset_tokens, password_checks>>
\* the audit_logs table
auditVars == <<audit_logs>>
\* the system_settings table and the cache entries made from it
settingVars == <<settings, setting_cache>>
\* the frontend's state
frontVars == <<auth_store>>
\* what the audit log service leaves alone
rbacVars == <<roles, roleSeq, permission_role, role_user, users, tokens, cache, attempts,
              frontVars, authVars, clock>>
\* state the user and role services leave alone
otherVars == <<attempts, auditVars, settingVars, frontVars, authVars, clock>>
\* ... and what a roles()->sync of a user leaves alone
syncedVars == <<attempts, auditVars, settingVars, frontVars, authVars>>
storeVars == <<roles, roleSeq, permission_role, role_user, users, tokens, otherVars>>

\* ------------------------------------------------------------ small helpers
RECURSIVE SortedSeq(_)
\* the elements of a finite set of integers in ascending order
SortedSeq(S) ==
  IF S = {} THEN <<>>
  ELSE LET m == CHOOSE x \in S : \A y \in S : x <= y
       IN <<m>> \o SortedSeq(S \ {m})

Range(s) == {s[i] : i \in 1..Len(s)}

NoRole == [present |-> FALSE, name |-> "", description |-> "", is_system |-> FALSE]
NoUserRow == [present |-> FALSE, email |-> "", deleted |-> FALSE,
              verified |-> FALSE, active |-> FALSE]
NoEntry == [hit |-> FALSE, val |-> <<>>]
\* A value of a setting or of an old/new value map: null, a string, or an array whose keys
\* hold strings.
EmptyMap == [k \in {} |-> ""]
Null == [kind |-> "null", s |-> "", sub |-> EmptyMap]
Str(x) == [kind |-> "string", s |-> x, sub |-> EmptyMap]
Arr(m) == [kind |-> "array", s |-> "", sub |-> m]

\* a resource_id or a user_id that is null
NullId == 0

\* the password SystemDatabaseSeeder gives the admin user
AdminPassword == "password123"
\* Hash::make and Hash::check
HashMake(password) == "hash:" \o password
HashCheck(password, hashed) == HashMake(password) = hashed
\* no row of password_reset_tokens
NoResetToken == [token |-> 0, expired |-> FALSE, issued |-> 0]

\* frontend, initialState of the auth store (token: null is the empty string)
initialState ==
  [user |-> NullId, token |-> "", isAuthenticated |-> FALSE, permissions |-> <<>>]

\* a system_settings.value column: null or a string
NullString == [isnull |-> TRUE, text |-> ""]
String(t) == [isnull |-> FALSE, text |-> t]
NoSetting == [present |-> FALSE, value |-> NullString, type |-> ""]

NoLoc == [pc |-> "idle", u |-> 0, r |-> 0, p |-> "", ids |-> <<>>, perms |-> <<>>, todo |-> <<>>,
          email |-> "", name |-> "", flag |-> FALSE, description |-> "", is_system |-> "",
          method |-> "", path |-> <<>>, data |-> EmptyMap, status |-> 0,
          key |-> "", value |-> Null, type |-> "", old |-> Null, at |-> 0, n |-> 0]
NoResp == [op |-> "none", status |-> 0, handled |-> FALSE, touched |-> FALSE, val |-> <<>>]

\* ------------------------------------------------------------ the resolver
\* $user->roles(): the roles joined to the user through role_user, by id
UserRoles(u) ==
  SortedSeq({r \in RoleIds : roles[r].present /\ <<r, u>> \in role_user})

\* $role->permissions: the permission rows joined through permission_role, by id
RolePermissions(r) ==
  SortedSeq({p \in PermIds : <<r, p>> \in permission_role})

RECURSIVE Flatten(_)
\* Collection::flatten of a list of lists
Flatten(ss) ==
  IF ss = <<>> THEN <<>> ELSE Head(ss) \o Flatten(Tail(ss))

RECURSIVE UniqueSeq(_, _)
\* Collection::unique: keep the first occurrence of each key, in order
UniqueSeq(s, seen) ==
  IF s = <<>> THEN <<>>
  ELSE IF Head(s) \in seen THEN UniqueSeq(Tail(s), seen)
       ELSE <<Head(s)>> \o UniqueSeq(Tail(s), seen \cup {Head(s)})

\* roles()->with('permissions')->get()->pluck('permissions')->flatten()
PluckedPermissions(u) ==
  LET rs == UserRoles(u)
  IN Flatten([i \in 1..Len(rs) |-> RolePermissions(rs[i])])

\* the pipeline with the unique('id') step lost
getUserPermissionsNoUnique(u) == PluckedPermissions(u)

\* PermissionService::getUserPermissions: ...->unique('id')->values()
getUserPermissions(u) == UniqueSeq(PluckedPermissions(u), {})

\* ->pluck('name')->toArray()
PluckNames(ps) == [i \in 1..Len(ps) |-> PermName(ps[i])]

\* in_array($permission, $permissions)
InArray(p, arr) == \E i \in 1..Len(arr) : arr[i] = p

\* --------------------------------------------------------------- Init
\* The state SystemDatabaseSeeder leaves: the permissions, the Super Admin
\* system role holding all of them, and the admin user attached to it.
Seeded ==
  /\ roles = [r \in RoleIds |->
               IF r = 1 THEN [present |-> TRUE, name |-> SuperAdminName,
                              description |-> SuperAdminDescription, is_system |-> TRUE]
               ELSE NoRole]
  /\ roleSeq = 1
  /\ permission_role = {<<1, p>> : p \in PermIds}
  /\ role_user = {<<1, 1>>}
  /\ users = [u \in UserIds |->
               IF u = 1 THEN [present |-> TRUE, email |-> AdminEmail, deleted |-> FALSE,
                              verified |-> TRUE, active |-> TRUE]
               ELSE NoUserRow]
  /\ tokens = [u \in UserIds |-> 0]
  /\ cache = [u \in UserIds |-> NoEntry]
  /\ clock = [now |-> 0, changed |-> [u \in UserIds |-> 0]]
  /\ passwords = [u \in UserIds |-> IF u = 1 THEN HashMake(AdminPassword) ELSE ""]
  /\ email_verification_tokens = {}
  /\ password_reset_tokens = [e \in Emails |-> NoResetToken]
  /\ password_checks = [e \in Emails |-> 0]
  /\ attempts = [e \in Emails |-> 0]
  /\ audit_logs = <<>>
  /\ settings = [k \in SettingKeys |-> NoSetting]
  /\ setting_cache = [k \in SettingKeys \cup {AllKey} |-> NoEntry]
  /\ reqs = EmptyBag
  /\ last = NoResp

\* ... and the frontend not logged in
Init == Seeded /\ auth_store = initialState

\* a worker is free to take a new request
FreeWorker == BagCardinality(reqs) < NumWorkers

\* the number of requests in flight that are at one of the given positions
InFlight(labels) ==
  BagCardinality([q \in {x \in BagToSet(reqs) : x.pc \in labels} |-> reqs[q]])

\* a request that is answered in the step that receives it
Answer(r) ==
  /\ FreeWorker
  /\ last' = r
  /\ UNCHANGED reqs

\* a request is received and stays in flight at position `label`
Begin(label, l) ==
  /\ FreeWorker
  /\ reqs' = reqs (+) SetToBag({[l EXCEPT !.pc = label, !.at = clock.now]})
  /\ UNCHANGED last

\* the request in flight q ends: its worker is free again, its response recorded
Finish(q, r) ==
  /\ reqs' = reqs (-) SetToBag({q})
  /\ last' = r

\* the request in flight q goes on to its next step
Goto(q, label, l) ==
  /\ reqs' = (reqs (-) SetToBag({q})) (+) SetToBag({[l EXCEPT !.pc = label]})
  /\ UNCHANGED last

\* q is a request in flight at position `label`
At(q, label) == q \in BagToSet(reqs) /\ q.pc = label

\* User::find with the SoftDeletes scope: the row exists and is not trashed
LiveUser(u) == u \in UserIds /\ users[u].present /\ ~users[u].deleted

\* ------------------------------------------- CheckPermission middleware
\* PermissionService::userHasPermission, given what Cache::remember returned
userHasPermission(permission, permissions) == InArray(permission, permissions)

\* the value the Cache::remember closure computes from the store
ResolveNames(u) == PluckNames(getUserPermissions(u))

\* a guard that lets every authenticated principal through (the 403 branch lost)
GuardResponseNoForbidden(u, p, permissions, touched) ==
  IF u = 0
  THEN [NoResp EXCEPT !.op = "handle", !.status = 401]
  ELSE [NoResp EXCEPT !.op = "handle", !.status = 200, !.touched = touched,
                      !.handled = TRUE]

\* CheckPermission::handle after the principal is known: the response for a
\* principal whose permission list is `permissions`
GuardResponse(u, p, permissions, touched) ==
  IF u = 0
  THEN [NoResp EXCEPT !.op = "handle", !.status = 401]
  ELSE IF ~userHasPermission(p, permissions)
  THEN [NoResp EXCEPT !.op = "handle", !.status = 403, !.touched = touched]
  ELSE [NoResp EXCEPT !.op = "handle", !.status = 200, !.touched = touched,
                      !.handled = TRUE]

\* handle(): no principal -> 401; else Cache::remember looks the key up: a hit
\* decides at once, a miss runs the closure (the store is read here) and the
\* value is put into the cache in a later step.
HandleStart(u, p) ==
  /\ u = 0 \/ LiveUser(u)
  /\ IF u = 0
     THEN Answer(GuardResponse(u, p, <<>>, FALSE)) /\ UNCHANGED cache
     ELSE IF cache[u].hit
     THEN Answer(GuardResponse(u, p, cache[u].val, TRUE)) /\ UNCHANGED cache
     ELSE Begin("remember_put", [NoLoc EXCEPT !.u = u, !.p = p, !.perms = ResolveNames(u)])
          /\ UNCHANGED cache
  /\ UNCHANGED storeVars

\* Cache::remember stores the closure's value; handle() then decides on it
HandlePut(q) ==
  /\ At(q, "remember_put")
  /\ cache' = [cache EXCEPT ![q.u] = [hit |-> TRUE, val |-> q.perms]]
  /\ Finish(q, GuardResponse(q.u, q.p, q.perms, TRUE))
  /\ UNCHANGED storeVars

\* ------------------------------------------------ RoleService (permissions)
\* RoleService::validatePermissionIds: TRUE when it returns, FALSE when it throws
validatePermissionIds(permissionIds) ==
  IF permissionIds = <<>> THEN TRUE
  ELSE LET existingCount == Cardinality({p \in PermIds : p \in Range(permissionIds)})
       IN existingCount = Len(permissionIds)

\* sync that only attaches (syncWithoutDetaching)
SyncWithoutDetaching(current, ids) == current \cup Range(ids)

\* BelongsToMany::sync: detach what is not in the list, attach what is missing
Sync(current, ids) ==
  LET detach == current \ Range(ids)
      attach == Range(ids) \ current
  IN (current \ detach) \cup attach

\* the permission_role table after $role->permissions()->sync($permissionIds)
SyncRolePermissions(r, ids) ==
  LET current == {p \in 1..(NumPerms + 1) : <<r, p>> \in permission_role}
  IN {rp \in permission_role : rp[1] # r} \cup {<<r, p>> : p \in Sync(current, ids)}

\* RoleService::assignPermissions: how the call ends
assignPermissionsOutcome(r, ids) ==
  IF ~roles[r].present THEN "not_found"
  ELSE IF ~validatePermissionIds(ids) THEN "invalid"
  ELSE "ok"

\* the $request->validate rules of RoleController::assignPermissions
AssignPermissionsRules(ids) ==
  /\ ids # <<>>
  /\ \A i \in 1..Len(ids) : ids[i] \in PermIds

AssignResp(status) == [NoResp EXCEPT !.op = "assignPermissions", !.status = status]

\* RoleController::assignPermissions up to the service call's return
AssignPermissionsStart(r, ids) ==
  /\ UNCHANGED <<roles, roleSeq, role_user, users, tokens, cache, otherVars>>
  /\ IF ~AssignPermissionsRules(ids)
     THEN Answer(AssignResp(422)) /\ UNCHANGED permission_role
     ELSE CASE assignPermissionsOutcome(r, ids) = "not_found" ->
                 Answer(AssignResp(404)) /\ UNCHANGED permission_role
            [] assignPermissionsOutcome(r, ids) = "invalid" ->
                 Answer(AssignResp(422)) /\ UNCHANGED permission_role
            [] OTHER ->
                 /\ permission_role' = SyncRolePermissions(r, ids)
                 /\ Begin("clear_read", [NoLoc EXCEPT !.r = r])

\* clearRoleUsersPermissionsCache: DB::table('role_user')->where(...)->pluck('user_id')
ClearRead(q) ==
  /\ At(q, "clear_read")
  /\ Goto(q, "clear_loop",
          [q EXCEPT !.todo = SortedSeq({u \in UserIds : <<q.r, u>> \in role_user})])
  /\ UNCHANGED <<storeVars, cache>>

\* clearUserPermissionsCache for the next user id of the loop
ClearForget(q) ==
  /\ At(q, "clear_loop")
  /\ q.todo # <<>>
  /\ cache' = [cache EXCEPT ![Head(q.todo)] = NoEntry]
  /\ Goto(q, "clear_loop", [q EXCEPT !.todo = Tail(q.todo)])
  /\ UNCHANGED storeVars

\* the loop is over: the controller returns its success response
AssignPermissionsReturn(q) ==
  /\ At(q, "clear_loop")
  /\ q.todo = <<>>
  /\ Finish(q, AssignResp(200))
  /\ UNCHANGED <<storeVars, cache>>

\* ---------------------------------------------------------- UserService
Resp(op, status) == [NoResp EXCEPT !.op = op, !.status = status]

\* User::where('email', $email)->exists(): Eloquent query, SoftDeletes scope on
EmailTaken(email) == \E u \in UserIds : LiveUser(u) /\ users[u].email = email

\* User::where('email', $email)->where('id', '!=', $id)->exists()
EmailTakenByOther(email, id) ==
  \E u \in UserIds : u # id /\ LiveUser(u) /\ users[u].email = email

\* the unique:users,email rule of UserRequest: a query on the table itself,
\* trashed rows included; `ignore` is the id the rule skips (0: none)
UniqueEmailRule(email, ignore) ==
  ~\E u \in UserIds : u # ignore /\ users[u].present /\ users[u].email = email

\* the exists:roles,id rule on role_ids.*
RoleIdsRule(roleIds) == \A i \in 1..Len(roleIds) : roles[roleIds[i]].present

\* ids still free in the users table, inserts already under way counted
UserIdFree ==
  Cardinality({u \in UserIds : users[u].present})
    + InFlight({"create_insert", "register_insert"}) < NumUsers

\* the id the auto-increment hands to the next inserted user (rows are never removed)
NextUserId == Cardinality({u \in UserIds : users[u].present}) + 1

\* BelongsToMany::sync on $user->roles(): the role_user table afterwards
SyncUserRoles(u, roleIds) ==
  LET current == {r \in RoleIds : <<r, u>> \in role_user}
  IN {ru \in role_user : ru[2] # u} \cup {<<r, u>> : r \in Sync(current, roleIds)}

\* POST /users: UserRequest rules, then the duplicate check of createUser
CreateUserCheck(email, roleIds, verified) ==
  /\ UserIdFree
  /\ IF ~UniqueEmailRule(email, 0) \/ ~RoleIdsRule(roleIds) \/ EmailTaken(email)
     THEN Answer(Resp("createUser", 422))
     ELSE Begin("create_insert",
               [NoLoc EXCEPT !.email = email, !.ids = roleIds, !.flag = verified])
  /\ UNCHANGED <<storeVars, cache>>

\* the transaction of createUser: User::create (the request's password is the
\* string AdminPassword), roles()->sync, email_verified_at
CreateUserInsert(q) ==
  /\ At(q, "create_insert")
  /\ users' = [users EXCEPT ![NextUserId] =
                 [present |-> TRUE, email |-> q.email, deleted |-> FALSE,
                  verified |-> q.flag, active |-> TRUE]]
  /\ role_user' = IF q.ids # <<>> THEN SyncUserRoles(NextUserId, q.ids)
                  ELSE role_user
  /\ passwords' = [passwords EXCEPT ![NextUserId] = HashMake(AdminPassword)]
  /\ Finish(q, Resp("createUser", 201))
  /\ UNCHANGED <<roles, roleSeq, permission_role, tokens, cache, attempts, auditVars,
                 settingVars, frontVars, email_verification_tokens,
                 password_reset_tokens, password_checks, clock>>

\* AuthService::register: the duplicate check (the password rule is met)
RegisterCheck(email) ==
  /\ UserIdFree
  /\ IF EmailTaken(email)
     THEN Answer(Resp("register", 422))
     ELSE Begin("register_insert", [NoLoc EXCEPT !.email = email])
  /\ UNCHANGED <<storeVars, cache>>

\* AuthService::register: User::create (unverified, active, no roles; the
\* request's password is the string AdminPassword) and sendVerificationEmail
RegisterInsert(q) ==
  /\ At(q, "register_insert")
  /\ users' = [users EXCEPT ![NextUserId] =
                 [present |-> TRUE, email |-> q.email, deleted |-> FALSE,
                  verified |-> FALSE, active |-> TRUE]]
  /\ passwords' = [passwords EXCEPT ![NextUserId] = HashMake(AdminPassword)]
  /\ email_verification_tokens' = email_verification_tokens \cup {q.email}
  /\ Finish(q, Resp("register", 201))
  /\ UNCHANGED <<roles, roleSeq, permission_role, role_user, tokens, cache, attempts,
                 auditVars, settingVars, frontVars, password_reset_tokens,
                 password_checks, clock>>

\* PUT /users/{user}: UserRequest rules, findOrFail and the duplicate check of
\* updateUser.  email = "" : no email in the patch; hasRoles: role_ids given.
UpdateUserCheck(id, email, hasRoles, roleIds) ==
  /\ IF (email # "" /\ ~UniqueEmailRule(email, id)) \/ (hasRoles /\ ~RoleIdsRule(roleIds))
     THEN Answer(Resp("updateUser", 422))
     ELSE IF ~LiveUser(id)
     THEN Answer(Resp("updateUser", 404))
     ELSE IF email # "" /\ email # users[id].email /\ EmailTakenByOther(email, id)
     THEN Answer(Resp("updateUser", 422))
     ELSE Begin("update_write",
               [NoLoc EXCEPT !.u = id, !.email = email, !.flag = hasRoles, !.ids = roleIds])
  /\ UNCHANGED <<storeVars, cache>>

\* the transaction of updateUser: $user->update, roles()->sync when given
UpdateUserWrite(q) ==
  /\ At(q, "update_write")
  /\ users' = IF q.email # ""
              THEN [users EXCEPT ![q.u].email = q.email]
              ELSE users
  /\ role_user' = IF q.flag THEN SyncUserRoles(q.u, q.ids) ELSE role_user
  /\ clock' = IF q.flag THEN [clock EXCEPT !.changed[q.u] = clock.now] ELSE clock
  /\ Finish(q, Resp("updateUser", 200))
  /\ UNCHANGED <<roles, roleSeq, permission_role, tokens, cache, syncedVars>>

\* POST /users/{user}/roles: the controller's rules (required, exists), then
\* UserService::assignRoles: findOrFail and roles()->sync
AssignRoles(id, roleIds) ==
  /\ IF roleIds = <<>> \/ ~RoleIdsRule(roleIds)
     THEN Answer(Resp("assignRoles", 422)) /\ UNCHANGED <<role_user, clock>>
     ELSE IF ~LiveUser(id)
     THEN Answer(Resp("assignRoles", 404)) /\ UNCHANGED <<role_user, clock>>
     ELSE /\ role_user' = SyncUserRoles(id, roleIds)
          /\ clock' = [clock EXCEPT !.changed[id] = clock.now]
          /\ Answer(Resp("assignRoles", 200))
  /\ UNCHANGED <<roles, roleSeq, permission_role, users, tokens, cache, syncedVars>>

\* deleteUser without the $user->tokens()->delete() line
DeleteUserKeepTokens(id) ==
  /\ IF ~LiveUser(id)
     THEN Answer(Resp("deleteUser", 404)) /\ UNCHANGED <<users, tokens>>
     ELSE /\ users' = [users EXCEPT ![id].deleted = TRUE]
          /\ Answer(Resp("deleteUser", 200))
          /\ UNCHANGED tokens
  /\ UNCHANGED <<roles, roleSeq, permission_role, role_user, cache, otherVars>>

\* UserService::deleteUser: findOrFail, then one transaction deleting the
\* user's tokens and setting deleted_at
DeleteUser(id) ==
  /\ IF ~LiveUser(id)
     THEN Answer(Resp("deleteUser", 404)) /\ UNCHANGED <<users, tokens>>
     ELSE /\ tokens' = [tokens EXCEPT ![id] = 0]
          /\ users' = [users EXCEPT ![id].deleted = TRUE]
          /\ Answer(Resp("deleteUser", 200))
  /\ UNCHANGED <<roles, roleSeq, permission_role, role_user, cache, otherVars>>

\* ---------------------------------------------------------- AuthService
\* AuthService::MAX_LOGIN_ATTEMPTS
MAX_LOGIN_ATTEMPTS == 5

\* User::where('email', $email)->first(): the live row with that email (0: none)
UserByEmail(email) ==
  LET found == {u \in UserIds : LiveUser(u) /\ users[u].email = email}
  IN IF found = {} THEN 0 ELSE CHOOSE u \in found : \A v \in found : u <= v

\* AuthService::login up to clearLoginAttempts: the lockout check, the user
\* lookup and the password, verification and activity checks.  pwOk: whether
\* Hash::check accepts the password given.
LoginCheck(email, pwOk) ==
  LET u == UserByEmail(email)
  IN /\ IF attempts[email] >= MAX_LOGIN_ATTEMPTS
        THEN Answer(Resp("login", 401)) /\ UNCHANGED attempts
        ELSE IF u = 0 \/ ~pwOk
        THEN /\ attempts' = [attempts EXCEPT ![email] = @ + 1]
             /\ Answer(Resp("login", 401))
        ELSE IF ~users[u].verified \/ ~users[u].active
        THEN Answer(Resp("login", 401)) /\ UNCHANGED attempts
        ELSE /\ attempts' = [attempts EXCEPT ![email] = 0]
             /\ Begin("login_token", [NoLoc EXCEPT !.u = u, !.email = email])
     /\ UNCHANGED <<roles, roleSeq, permission_role, role_user, users, tokens, cache,
                    auditVars, settingVars, frontVars, authVars, clock>>

\* AuthService::login: $user->createToken('auth-token'), then the response
\* (token rows past MaxTokens are not counted)
LoginToken(q) ==
  /\ At(q, "login_token")
  /\ tokens' = [tokens EXCEPT ![q.u] = IF @ < MaxTokens THEN @ + 1 ELSE @]
  /\ Finish(q, Resp("login", 200))
  /\ UNCHANGED <<roles, roleSeq, permission_role, role_user, users, cache, otherVars>>

\* the auth:sanctum guard on a request carrying a token of user u: the token
\* row must exist and its tokenable is looked up through the User model, whose
\* SoftDeletes scope hides trashed rows
Authenticates(u) == tokens[u] > 0 /\ LiveUser(u)

\* POST /auth/logout with a token of user u: the guard, then AuthService::logout
\* deleting the current access token; `val` names the token's user
Logout(u) ==
  /\ IF ~Authenticates(u)
     THEN Answer([Resp("logout", 401) EXCEPT !.val = <<u>>]) /\ UNCHANGED tokens
     ELSE /\ tokens' = [tokens EXCEPT ![u] = @ - 1]
          /\ Answer([Resp("logout", 200) EXCEPT !.val = <<u>>])
  /\ UNCHANGED <<roles, roleSeq, permission_role, role_user, users, cache, otherVars>>

\* ---------------------------------------------------------- RoleService
\* Role::where('name', $name)->exists()
RoleNameTaken(name) == \E r \in RoleIds : roles[r].present /\ roles[r].name = name

\* ids still free in the roles table, inserts already under way counted
RoleIdFree == roleSeq + InFlight({"role_insert"}) < NumRoles

\* RoleService::createRole: the duplicate-name check before the transaction
CreateRoleCheck(name, isSystem, ids) ==
  /\ RoleIdFree
  /\ IF RoleNameTaken(name)
     THEN Answer(Resp("createRole", 422))
     ELSE Begin("role_insert", [NoLoc EXCEPT !.name = name, !.flag = isSystem, !.ids = ids])
  /\ UNCHANGED <<storeVars, cache>>

\* the transaction of createRole without its rollback: the role row inserted
\* before validatePermissionIds threw stays
CreateRoleInsertNoRollback(q) ==
  /\ At(q, "role_insert")
  /\ roles' = [roles EXCEPT ![roleSeq + 1] =
                 [present |-> TRUE, name |-> q.name, description |-> "",
                  is_system |-> q.flag]]
  /\ roleSeq' = roleSeq + 1
  /\ IF q.ids # <<>> /\ ~validatePermissionIds(q.ids)
     THEN /\ Finish(q, Resp("createRole", 422))
          /\ UNCHANGED permission_role
     ELSE /\ permission_role' = permission_role \cup {<<roleSeq + 1, x>> : x \in Range(q.ids)}
          /\ Finish(q, Resp("createRole", 201))
  /\ UNCHANGED <<role_user, users, tokens, cache, otherVars>>

\* the transaction of createRole: Role::create, then validatePermissionIds and
\* sync when permission_ids is not empty; a throw rolls the insert back
CreateRoleInsert(q) ==
  /\ At(q, "role_insert")
  /\ IF q.ids # <<>> /\ ~validatePermissionIds(q.ids)
     THEN /\ Finish(q, Resp("createRole", 422))
          /\ UNCHANGED <<roles, roleSeq, permission_role>>
     ELSE /\ roles' = [roles EXCEPT ![roleSeq + 1] =
                         [present |-> TRUE, name |-> q.name, description |-> "",
                          is_system |-> q.flag]]
          /\ roleSeq' = roleSeq + 1
          /\ permission_role' = permission_role \cup {<<roleSeq + 1, x>> : x \in Range(q.ids)}
          /\ Finish(q, Resp("createRole", 201))
  /\ UNCHANGED <<role_user, users, tokens, cache, otherVars>>

\* a key the patch of PUT /roles/{role} does not carry (for is_system also a
\* null, which isset() treats alike)
Unset == "unset"

\* Rule::unique('roles', 'name')->ignore($roleId) of RoleRequest
UniqueRoleNameRule(name, ignore) ==
  ~\E r \in RoleIds : r # ignore /\ roles[r].present /\ roles[r].name = name

\* PUT /roles/{role}: RoleRequest rules, then RoleService::updateRole up to
\* its transaction: findOrFail and the duplicate check when the name changes.
\* name, description, isSystem: the patch, Unset for a key not given
\* (isSystem "true" / "false" otherwise).
UpdateRoleCheck(id, name, description, isSystem) ==
  /\ IF name # Unset /\ ~UniqueRoleNameRule(name, id)
     THEN Answer(Resp("updateRole", 422))
     ELSE IF ~roles[id].present
     THEN Answer(Resp("updateRole", 404))
     ELSE IF name # Unset /\ name # roles[id].name
             /\ (\E r \in RoleIds : r # id /\ roles[r].present /\ roles[r].name = name)
     THEN Answer(Resp("updateRole", 422))
     ELSE Begin("role_update",
               [NoLoc EXCEPT !.r = id, !.name = name, !.description = description,
                             !.is_system = isSystem])
  /\ UNCHANGED <<storeVars, cache>>

\* the transaction of updateRole: $role->update($updateData) with the keys of
\* the patch; the controller goes on to clearRoleUsersPermissionsCache
UpdateRoleWrite(q) ==
  /\ At(q, "role_update")
  /\ roles' = [roles EXCEPT ![q.r] =
                 [present |-> TRUE,
                  name |-> IF q.name # Unset THEN q.name ELSE @.name,
                  description |-> IF q.description # Unset THEN q.description
                                  ELSE @.description,
                  is_system |-> IF q.is_system # Unset THEN q.is_system = "true"
                                ELSE @.is_system]]
  /\ Goto(q, "update_clear_read", q)
  /\ UNCHANGED <<roleSeq, permission_role, role_user, users, tokens, cache, otherVars>>

\* clearRoleUsersPermissionsCache called by RoleController::update: the
\* user ids of the role are read from role_user
UpdateRoleClearRead(q) ==
  /\ At(q, "update_clear_read")
  /\ Goto(q, "update_clear_loop",
          [q EXCEPT !.todo = SortedSeq({u \in UserIds : <<q.r, u>> \in role_user})])
  /\ UNCHANGED <<storeVars, cache>>

\* ... and each user's cache key is forgotten
UpdateRoleClearForget(q) ==
  /\ At(q, "update_clear_loop")
  /\ q.todo # <<>>
  /\ cache' = [cache EXCEPT ![Head(q.todo)] = NoEntry]
  /\ Goto(q, "update_clear_loop", [q EXCEPT !.todo = Tail(q.todo)])
  /\ UNCHANGED storeVars

\* RoleController::update returns its success response
UpdateRoleReturn(q) ==
  /\ At(q, "update_clear_loop")
  /\ q.todo = <<>>
  /\ Finish(q, Resp("updateRole", 200))
  /\ UNCHANGED <<storeVars, cache>>

\* RoleService::hasAssignedUsers: $role->users()->count() > 0; the users
\* relation is an Eloquent query on User, so trashed users are not counted
hasAssignedUsers(r) == \E u \in UserIds : <<r, u>> \in role_user /\ LiveUser(u)

\* RoleService::deleteRole up to the transaction: findOrFail, hasAssignedUsers
DeleteRoleCheck(r) ==
  /\ IF ~roles[r].present
     THEN Answer(Resp("deleteRole", 404))
     ELSE IF hasAssignedUsers(r)
     THEN Answer(Resp("deleteRole", 422))
     ELSE Begin("role_delete", [NoLoc EXCEPT !.r = r])
  /\ UNCHANGED <<storeVars, cache>>

\* the transaction of deleteRole: permissions()->detach(), $role->delete()
DeleteRoleDelete(q) ==
  /\ At(q, "role_delete")
  /\ permission_role' = {rp \in permission_role : rp[1] # q.r}
  /\ roles' = [roles EXCEPT ![q.r] = NoRole]
  /\ Finish(q, Resp("deleteRole", 200))
  /\ UNCHANGED <<roleSeq, role_user, users, tokens, cache, otherVars>>

\* RoleService::assignPermissions called with any list: findOrFail,
\* validatePermissionIds, permissions()->sync; `val` keeps the arguments
AssignPermissions(r, ids) ==
  /\ UNCHANGED <<roles, roleSeq, role_user, users, tokens, cache, otherVars>>
  /\ CASE assignPermissionsOutcome(r, ids) = "not_found" ->
            /\ Answer([AssignResp(404) EXCEPT !.val = <<r>> \o ids])
            /\ UNCHANGED permission_role
       [] assignPermissionsOutcome(r, ids) = "invalid" ->
            /\ Answer([AssignResp(422) EXCEPT !.val = <<r>> \o ids])
            /\ UNCHANGED permission_role
       [] OTHER ->
            /\ permission_role' = SyncRolePermissions(r, ids)
            /\ Answer([AssignResp(200) EXCEPT !.val = <<r>> \o ids])

\* PermissionService::getUserPermissions called for user u: the ids returned
GetUserPermissions(u) ==
  /\ users[u].present
  /\ Answer([Resp("getUserPermissions", 200) EXCEPT !.val = getUserPermissions(u)])
  /\ UNCHANGED <<storeVars, cache>>

\* User::getAllPermissions: the same pipeline on the model ($this->roles()...)
getAllPermissions(u) == UniqueSeq(PluckedPermissions(u), {})

\* User::hasPermission: getAllPermissions()->contains('name', $permission)
hasPermission(u, permission) ==
  \E i \in 1..Len(getAllPermissions(u)) : PermName(getAllPermissions(u)[i]) = permission

\* $user->hasPermission($permission) called; `handled` carries the answer
HasPermission(u, permission) ==
  /\ users[u].present
  /\ Answer([Resp("hasPermission", 200) EXCEPT !.handled = hasPermission(u, permission)])
  /\ UNCHANGED <<storeVars, cache>>

\* ------------------------------------------------------ AuditLogService

\* $sensitiveFields of sanitizeValues and of sanitizeRequestData
SensitiveFields ==
  {"password", "password_confirmation", "current_password", "new_password",
   "token", "api_token", "remember_token", "secret"}

Redacted == Str("[REDACTED]")

\* the value maps passed in: a name that is absent, null, a string or an array
\* holding a password, and a password that is absent, null or a string
InputMaps ==
  LET NameValues == {Null, Str("new"), Arr([k \in {"password"} |-> "secret123"])}
      PasswordValues == {Null, Str("secret123")}
  IN  {m \in UNION {[S -> NameValues \cup PasswordValues] : S \in SUBSET {"name", "password"}} :
         /\ "name" \in DOMAIN m => m["name"] \in NameValues
         /\ "password" \in DOMAIN m => m["password"] \in PasswordValues}

\* an old_values / new_values column: null when the call gave none
NoValues == [given |-> FALSE, map |-> EmptyMap]
Values(m) == [given |-> TRUE, map |-> m]

\* sanitizeValues without the redaction
sanitizeNothing(values) == values

\* AuditLogService::sanitizeValues: isset($values[$field]) is false for a key
\* that is absent and for a key whose value is null
sanitizeValues(values) ==
  [k \in DOMAIN values |->
     IF k \in SensitiveFields /\ values[k].kind # "null" THEN Redacted ELSE values[k]]

\* AuditLog::create writing over the newest row instead of inserting
AuditLogUpsert(entry) ==
  /\ Len(audit_logs) < MaxAudit
  /\ audit_logs' = IF audit_logs = <<>> THEN <<entry>>
                   ELSE [audit_logs EXCEPT ![Len(audit_logs)] = entry]

\* AuditLog::create: one row inserted
AuditLogCreate(entry) ==
  /\ Len(audit_logs) < MaxAudit
  /\ audit_logs' = Append(audit_logs, entry)

\* the row AuditLogService::log builds from its arguments
Entry(user, action, resource, resourceId, old, new) ==
  [user_id |-> user, action |-> action, resource |-> resource,
   resource_id |-> resourceId, old_values |-> old, new_values |-> new]

\* AuditLogService::log called by the principal `user`
Log(user, action, resource, resourceId, old, new) ==
  /\ AuditLogCreate(Entry(user, action, resource, resourceId, old, new))
  /\ Answer(Resp("log", 200))
  /\ UNCHANGED <<rbacVars, settingVars>>

\* AuditLogService::logCreate
LogCreate(user, resource, resourceId, newValues) ==
  /\ AuditLogCreate(Entry(user, "create", resource, resourceId,
                          NoValues, Values(sanitizeValues(newValues))))
  /\ Answer(Resp("logCreate", 200))
  /\ UNCHANGED <<rbacVars, settingVars>>

\* AuditLogService::logUpdate
LogUpdate(user, resource, resourceId, oldValues, newValues) ==
  /\ AuditLogCreate(Entry(user, "update", resource, resourceId,
                          Values(sanitizeValues(oldValues)),
                          Values(sanitizeValues(newValues))))
  /\ Answer(Resp("logUpdate", 200))
  /\ UNCHANGED <<rbacVars, settingVars>>

\* AuditLogService::logDelete
LogDelete(user, resource, resourceId, oldValues) ==
  /\ AuditLogCreate(Entry(user, "delete", resource, resourceId,
                          Values(sanitizeValues(oldValues)), NoValues))
  /\ Answer(Resp("logDelete", 200))
  /\ UNCHANGED <<rbacVars, settingVars>>

\* AuditLogService::logLogin / logLogout
LogAuth(user, action) ==
  /\ AuditLogCreate(Entry(user, action, "auth", NullId, NoValues, NoValues))
  /\ Answer(Resp(action, 200))
  /\ UNCHANGED <<rbacVars, settingVars>>

\* ------------------------------------------------------- SystemSetting
\* json_encode of a value whose arrays are keyed by "password" at most
JsonEncode(v) ==
  CASE v.kind = "null" -> "null"
    [] v.kind = "string" -> "\"" \o v.s \o "\""
    [] OTHER -> IF DOMAIN v.sub = {} THEN "[]"
                ELSE "{\"password\":\"" \o v.sub["password"] \o "\"}"

\* the values settings are given
SettingValues == {Str("Acme"), Arr([k \in {"password"} |-> "secret123"])}

\* json_decode($value, true): null for a text that is not JSON
JsonDecode(text) ==
  IF \E v \in SettingValues : JsonEncode(v) = text
  THEN CHOOSE v \in SettingValues : JsonEncode(v) = text
  ELSE Null

\* SystemSetting::valueToString for the types 'string' and 'json'; the
\* (string) cast of an array raises "Array to string conversion"
StringCastFails(value, type) == value.kind = "array" /\ type \notin {"array", "json"}
valueToString(value, type) ==
  IF value = Null THEN NullString
  ELSE IF type \in {"array", "json"} THEN String(JsonEncode(value))
  ELSE String(value.s)

\* SystemSetting::castValue for the types 'string' and 'json'
castValue(value, type) ==
  IF value.isnull THEN Null
  ELSE IF type \in {"array", "json"} THEN JsonDecode(value.text)
  ELSE Str(value.text)

\* Cache::remember on the entry k of the settings cache, the closure giving
\* v: the entry that is there wins, and a null is never kept
Remembered(k, v) == IF setting_cache[k].hit THEN setting_cache[k].val ELSE v
Remember(k, v) ==
  IF setting_cache[k].hit \/ v = Null THEN setting_cache
  ELSE [setting_cache EXCEPT ![k] = [hit |-> TRUE, val |-> v]]

\* the closure of SystemSetting::get
StoredValue(key, default) ==
  IF settings[key].present THEN castValue(settings[key].value, settings[key].type)
  ELSE default

\* the closure of SystemSetting::getAll: key => cast value of every row; the
\* array is a value, so that an empty one can be told from null
StoredAll ==
  [kind |-> "array", s |-> "",
   sub |-> [k \in {x \in SettingKeys : settings[x].present} |->
              castValue(settings[k].value, settings[k].type)]]

\* SystemSetting::get($key, $default), and with key = AllKey
\* SystemSetting::getAll: Cache::remember up to its closure. An entry that is
\* there is the answer; without one the closure reads the table.
SettingGetRead(key, default) ==
  /\ IF setting_cache[key].hit
     THEN Answer([Resp("get", 200) EXCEPT !.val = <<key, default, setting_cache[key].val>>])
     ELSE Begin("get_put",
                [NoLoc EXCEPT !.key = key, !.old = default,
                              !.value = IF key = AllKey THEN StoredAll
                                        ELSE StoredValue(key, default)])
  /\ UNCHANGED <<storeVars, cache>>

\* Cache::remember after its closure: the put of what the closure returned
\* (a null is not kept), and the return
SettingGetPut(q) ==
  /\ At(q, "get_put")
  /\ setting_cache' = IF q.value = Null THEN setting_cache
                      ELSE [setting_cache EXCEPT ![q.key] = [hit |-> TRUE, val |-> q.value]]
  /\ Finish(q, [Resp("get", 200) EXCEPT !.val = <<q.key, q.old, q.value>>])
  /\ UNCHANGED <<rbacVars, auditVars, settings>>

\* ------------------------------------------------ SystemSettingService
\* set($key, $value, $type) called for the user u; `rest` holds the calls that
\* follow in the loop of SystemSettingController::update, `caller` tells the
\* controller from a direct call
SettingSetStart(u, caller, key, value, type, rest) ==
  /\ Begin("set_get", [NoLoc EXCEPT !.u = u, !.p = caller, !.key = key, !.value = value,
                                    !.type = type, !.todo = rest])
  /\ UNCHANGED <<storeVars, cache>>

\* $oldValue = SystemSetting::get($key)
SettingSetGet(q) ==
  /\ At(q, "set_get")
  /\ setting_cache' = Remember(q.key, StoredValue(q.key, Null))
  /\ Goto(q, "set_write", [q EXCEPT !.old = Remembered(q.key, StoredValue(q.key, Null))])
  /\ UNCHANGED <<rbacVars, auditVars, settings>>

\* SystemSetting::set: valueToString and updateOrCreate
SettingWrite(q) ==
  /\ At(q, "set_write")
  /\ IF StringCastFails(q.value, q.type)
     THEN Finish(q, Resp(q.p, 500)) /\ UNCHANGED settings
     ELSE /\ settings' = [settings EXCEPT ![q.key] =
                            [present |-> TRUE, value |-> valueToString(q.value, q.type),
                             type |-> q.type]]
          /\ Goto(q, "set_forget", q)
  /\ UNCHANGED <<rbacVars, auditVars, setting_cache>>

\* SystemSetting::set: the two Cache::forget; then the audit entry of
\* SystemSettingService::set, or the next turn of updateMultiple's loop
SettingForget(q) ==
  /\ At(q, "set_forget")
  /\ setting_cache' = [setting_cache EXCEPT ![q.key] = NoEntry, ![AllKey] = NoEntry]
  /\ IF q.p # "updateMultiple" THEN Goto(q, "set_log", q)
     ELSE IF q.todo = <<>> THEN Goto(q, "um_new", q)
     ELSE Goto(q, "set_write", [q EXCEPT !.key = Head(q.todo)[1], !.value = Head(q.todo)[2],
                                         !.type = Head(q.todo)[3], !.todo = Tail(q.todo)])
  /\ UNCHANGED <<rbacVars, auditVars, settings>>

\* SystemSettingService::set: logUpdate('system_settings', 0, old, new); then
\* the return, or the next turn of the controller's loop
SettingSetLog(q) ==
  /\ At(q, "set_log")
  /\ AuditLogCreate(Entry(q.u, "update", "system_settings", NullId,
       Values(sanitizeValues([k \in {"key", "value"} |-> IF k = "key" THEN Str(q.key) ELSE q.old])),
       Values(sanitizeValues([k \in {"key", "value"} |-> IF k = "key" THEN Str(q.key) ELSE q.value]))))
  /\ IF q.p # "updateSettings" THEN Finish(q, [Resp(q.p, 200) EXCEPT !.val = <<q.key>>])
     ELSE IF q.todo = <<>> THEN Goto(q, "update_read", q)
     ELSE Goto(q, "set_get", [q EXCEPT !.key = Head(q.todo)[1], !.value = Head(q.todo)[2],
                                       !.type = Head(q.todo)[3], !.todo = Tail(q.todo)])
  /\ UNCHANGED <<rbacVars, settingVars>>

\* logUpdate when AuditLog::create throws: nothing catches the exception on
\* its way out of set or updateMultiple, and the settings stay written
SettingLogFails(q) ==
  /\ q \in BagToSet(reqs) /\ q.pc \in {"set_log", "um_log"}
  /\ Finish(q, [Resp(q.p, 500) EXCEPT !.val = <<q.key>>])
  /\ UNCHANGED <<rbacVars, auditVars, settingVars>>

\* SystemSettingController::update, PUT /api/settings by the user u with the
\* validated form `data`: set($key, $value) for each value that is not null
SettingsUpdate(u, data) ==
  LET calls == [i \in 1..Len(data) |-> <<data[i][1], data[i][2], "string">>]
      todo == SelectSeq(calls, LAMBDA c : c[2] # Null)
  IN  /\ IF todo = <<>>
         THEN Begin("update_read", [NoLoc EXCEPT !.u = u, !.p = "updateSettings"])
         ELSE Begin("set_get", [NoLoc EXCEPT !.u = u, !.p = "updateSettings", !.key = Head(todo)[1],
                                             !.value = Head(todo)[2], !.type = Head(todo)[3],
                                             !.todo = Tail(todo)])
      /\ UNCHANGED <<storeVars, cache>>

\* SystemSettingController::update, after the loop: getAll, getCompanyInfo
\* (company_name with the default '') and the response
SettingsUpdateRead(q) ==
  /\ At(q, "update_read")
  /\ setting_cache' =
       [k \in DOMAIN setting_cache |->
          IF k = AllKey THEN Remember(AllKey, StoredAll)[AllKey]
          ELSE IF k = "company_name" THEN Remember(k, StoredValue(k, Str("")))[k]
          ELSE setting_cache[k]]
  /\ Finish(q, Resp("updateSettings", 200))
  /\ UNCHANGED <<rbacVars, auditVars, settings>>

\* The arguments of the SystemSetting::set call updateMultiple makes for
\* $data, an entry of the array it is given: a bare value (wrapped = FALSE), or
\* an array with the keys 'value' and, unless type = Unset, 'type'.
SetArguments(key, data) ==
  IF data.wrapped /\ data.value # Null
  THEN <<key, data.value, IF data.type = Unset THEN "string" ELSE data.type>>
  ELSE IF data.wrapped THEN <<key, Arr(EmptyMap), "string">>
  ELSE <<key, data.value, "string">>

\* SystemSettingService::updateMultiple($settings) called for the user u
UpdateMultipleStart(u, items) ==
  /\ Begin("um_old", [NoLoc EXCEPT !.u = u, !.p = "updateMultiple",
               !.todo = [i \in 1..Len(items) |-> SetArguments(items[i][1], items[i][2])]])
  /\ UNCHANGED <<storeVars, cache>>

\* updateMultiple: $oldSettings = $this->getAll() before the loop and
\* $newSettings = SystemSetting::getAll() after it
UpdateMultipleGetAll(q) ==
  /\ q \in BagToSet(reqs) /\ q.pc \in {"um_old", "um_new"}
  /\ setting_cache' = Remember(AllKey, StoredAll)
  /\ IF q.pc = "um_new"
     THEN Goto(q, "um_log", [q EXCEPT !.value = Remembered(AllKey, StoredAll)])
     ELSE IF q.todo = <<>>
     THEN Goto(q, "um_new", [q EXCEPT !.old = Remembered(AllKey, StoredAll)])
     ELSE Goto(q, "set_write", [q EXCEPT !.old = Remembered(AllKey, StoredAll),
                                         !.key = Head(q.todo)[1], !.value = Head(q.todo)[2],
                                         !.type = Head(q.todo)[3], !.todo = Tail(q.todo)])
  /\ UNCHANGED <<rbacVars, auditVars, settings>>

\* updateMultiple: logUpdate('system_settings', 0, $oldSettings, $newSettings)
UpdateMultipleLog(q) ==
  /\ At(q, "um_log")
  /\ AuditLogCreate(Entry(q.u, "update", "system_settings", NullId,
                          Values(sanitizeValues(q.old.sub)), Values(sanitizeValues(q.value.sub))))
  /\ Finish(q, Resp("updateMultiple", 200))
  /\ UNCHANGED <<rbacVars, settingVars>>

\* ------------------------------------------------- AuditLogger middleware
\* A request path is the sequence of its pieces, "/" being a piece of its own:
\* str_starts_with on two paths is the prefix relation on their pieces.
\* The requests that reach the middleware, path and route parameter:
\* api/auth/logout, api/auth/logout-all, api/users and api/roles/1.
Routes ==
  {[path |-> <<"api", "/", "auth", "/", "logout">>, id |-> NullId],
   [path |-> <<"api", "/", "auth", "/", "logout", "-all">>, id |-> NullId],
   [path |-> <<"api", "/", "users">>, id |-> NullId],
   [path |-> <<"api", "/", "roles", "/", "1">>, id |-> 1]}

Methods == {"GET", "POST", "PUT", "PATCH", "DELETE"}

\* status codes the wrapped handler answers with
Statuses == {200, 201, 422, 500}

\* $loggableMethods
loggableMethods == {"POST", "PUT", "PATCH", "DELETE"}

\* $excludedRoutes
excludedRoutes ==
  {<<"api", "/", "auth", "/", "login">>, <<"api", "/", "auth", "/", "logout">>,
   <<"api", "/", "auth", "/", "register">>}

str_starts_with(haystack, needle) ==
  /\ Len(needle) <= Len(haystack)
  /\ SubSeq(haystack, 1, Len(needle)) = needle

RECURSIVE Segments(_)
\* $request->segments(): the pieces between the "/", joined
Segments(path) ==
  IF path = <<>> THEN <<>>
  ELSE IF Head(path) = "/" THEN Segments(Tail(path))
  ELSE LET rest == Segments(Tail(path))
       IN  IF Len(path) > 1 /\ path[2] # "/"
           THEN <<Head(path) \o Head(rest)>> \o Tail(rest)
           ELSE <<Head(path)>> \o rest

\* AuditLogger::shouldLog without the status check
shouldLogAnyStatus(q) ==
  /\ q.u # NullId
  /\ q.method \in loggableMethods
  /\ \A route \in excludedRoutes : ~str_starts_with(q.path, route)

\* AuditLogger::shouldLog for the request q and the response its handler gave
shouldLog(q) ==
  /\ q.u # NullId
  /\ q.method \in loggableMethods
  /\ \A route \in excludedRoutes : ~str_starts_with(q.path, route)
  /\ ~(q.status < 200 \/ q.status >= 300)

\* AuditLogger::determineAction
determineAction(method) ==
  CASE method = "POST" -> "create"
    [] method \in {"PUT", "PATCH"} -> "update"
    [] method = "DELETE" -> "delete"
    [] OTHER -> "get"

\* AuditLogger::determineResource
determineResource(path) ==
  LET segments == Segments(path)
      shifted == IF segments # <<>> /\ segments[1] = "api" THEN Tail(segments) ELSE segments
  IN  IF shifted # <<>> THEN shifted[1] ELSE "unknown"

\* AuditLogger::determineResourceId: the route parameter, else for a POST the
\* id in the response body (q.r), else null
determineResourceId(q) ==
  IF q.ids # <<>> /\ q.ids[1] # NullId THEN q.ids[1]
  ELSE IF q.method = "POST" /\ q.r # NullId THEN q.r
  ELSE NullId

\* AuditLogger::sanitizeRequestData
sanitizeRequestData(data) ==
  [k \in DOMAIN data |->
     IF k \in SensitiveFields /\ data[k].kind # "null" THEN Redacted ELSE data[k]]

\* AuditLogger::handle, $response = $next($request): the handler has run and
\* answered `status`, with `id` as the id in its body; `user` is
\* $request->user(), NullId without one
AuditLoggerNext(user, method, route, data, status, id) ==
  /\ Begin("audit_should_log",
           [NoLoc EXCEPT !.u = user, !.method = method, !.path = route.path,
                         !.ids = <<route.id>>, !.data = data, !.status = status, !.r = id])
  /\ UNCHANGED <<storeVars, cache>>

\* AuditLogger::handle, the rest: shouldLog, logAction, return $response
AuditLoggerLog(q) ==
  /\ At(q, "audit_should_log")
  /\ IF shouldLog(q)
     THEN AuditLogCreate(Entry(q.u, determineAction(q.method), determineResource(q.path),
                               determineResourceId(q), NoValues,
                               Values(sanitizeRequestData(q.data))))
     ELSE UNCHANGED audit_logs
  /\ Finish(q, [Resp("audit", q.status) EXCEPT !.handled = TRUE])
  /\ UNCHANGED <<rbacVars, settingVars>>

\* AuditLogger::handle when AuditLog::create throws: the exception leaves
\* handle before `return $response`
AuditLoggerLogFails(q) ==
  /\ At(q, "audit_should_log")
  /\ shouldLog(q)
  /\ Finish(q, [Resp("audit", 500) EXCEPT !.handled = TRUE])
  /\ UNCHANGED <<rbacVars, auditVars, settingVars>>

\* ------------------------------------------------------------------------
\* SpecCache: the permission cache under concurrent requests.  Workers run
\* guarded requests (CheckPermission::handle) and POST /roles/{role}/permissions;
\* role membership never changes here.
\* ------------------------------------------------------------------------
\* the permission tags of the guarded routes that are exercised
RequiredPermissions == {"users.view", "users.create"}

NextCache ==
  \/ \E u \in {0} \cup UserIds, p \in RequiredPermissions : HandleStart(u, p)
  \/ \E r \in RoleIds, S \in SUBSET PermIds : AssignPermissionsStart(r, SortedSeq(S))
  \/ \E q \in BagToSet(reqs) : HandlePut(q)
  \/ \E q \in BagToSet(reqs) : ClearRead(q)
  \/ \E q \in BagToSet(reqs) : ClearForget(q)
  \/ \E q \in BagToSet(reqs) : AssignPermissionsReturn(q)

SpecCache == Init /\ [][NextCache]_vars

\* the permission names the store gives user u: those of at least one of its roles
EffectiveNames(u) ==
  {PermName(x) : x \in {y \in PermIds :
     \E r \in RoleIds : roles[r].present /\ <<r, u>> \in role_user /\ <<r, y>> \in permission_role}}

\* what userHasPermission(u, p) answers if it is called now and runs alone
NextAnswer(u, p) ==
  userHasPermission(p, IF cache[u].hit THEN cache[u].val ELSE ResolveNames(u))

\* every assign-permissions request received so far has returned
NoAssignInFlight == InFlight({"clear_read", "clear_loop"}) = 0

\* C1: once the assign-permissions operation on a role R has returned (none is
\* between its sync and its return), the next userHasPermission(U, p) call of
\* every user U attached to R answers according to R's permission set in the
\* store, for every permission p.
C1_CacheCoherence ==
  NoAssignInFlight =>
    \A r \in RoleIds, u \in UserIds :
      (roles[r].present /\ <<r, u>> \in role_user /\ LiveUser(u)) =>
        \A p \in RequiredPermissions : NextAnswer(u, p) = (p \in EffectiveNames(u))

\* what C2 asks of a response: the handler runs iff `allowed`, else 403
Decided(r, allowed) ==
  /\ r.op = "handle"
  /\ r.handled = allowed
  /\ r.status = IF allowed THEN 200 ELSE 403

\* C2: CheckPermission.handle invokes the handler iff a principal is present
\* and p is in the principal's cached-or-resolved permission list; with no
\* principal it answers 401, handler not invoked, cache neither read nor
\* written; with a principal lacking p it answers 403, handler not invoked.
C2_GuardDecision ==
  [][ /\ \A u \in {0} \cup UserIds, p \in RequiredPermissions :
           HandleStart(u, p) =>
             IF u = 0
             THEN /\ last'.op = "handle" /\ last'.status = 401
                  /\ ~last'.handled /\ ~last'.touched
                  /\ cache' = cache
             ELSE IF cache[u].hit
             THEN Decided(last', InArray(p, cache[u].val)) /\ cache' = cache
             ELSE /\ \E q \in BagToSet(reqs') :
                       q.pc = "remember_put" /\ q.u = u /\ q.p = p
                         /\ q.perms = PluckNames(SortedSeq({y \in PermIds : PermName(y) \in EffectiveNames(u)}))
                  /\ last' = last
      /\ \A q \in BagToSet(reqs) :
           HandlePut(q) =>
             /\ Decided(last', InArray(q.p, q.perms))
             /\ cache'[q.u] = [hit |-> TRUE, val |-> q.perms]
    ]_vars

\* C2 witness: a request of a principal that lacks p has been answered 403
C2_Witness == last.op = "handle" /\ last.status = 403 /\ last.touched

\* ------------------------------------------------------------------------
\* SpecMembership: guarded requests together with the requests that change a
\* user's role membership (PUT /users/{user}, POST /users/{user}/roles) and
\* role creation.
\* ------------------------------------------------------------------------
SortedLists(S) == {SortedSeq(T) : T \in SUBSET S}

NextMembership ==
  \/ \E u \in {0} \cup UserIds, p \in RequiredPermissions : HandleStart(u, p)
  \/ \E q \in BagToSet(reqs) : HandlePut(q)
  \/ \E n \in RoleNames, ids \in SortedLists(PermIds) : CreateRoleCheck(n, FALSE, ids)
  \/ \E q \in BagToSet(reqs) : CreateRoleInsert(q)
  \/ \E id \in UserIds, roleIds \in SortedLists(RoleIds) : AssignRoles(id, roleIds)
  \/ \E id \in UserIds, hasRoles \in BOOLEAN, roleIds \in SortedLists(RoleIds) :
       UpdateUserCheck(id, "", hasRoles, roleIds)
  \/ \E q \in BagToSet(reqs) : UpdateUserWrite(q)

SpecMembership == Init /\ [][NextMembership]_vars

\* the cache entry of u, if any, is the list the store gives u now
EntryCurrent(u) == cache[u].hit => Range(cache[u].val) = EffectiveNames(u)

\* C3: when updateUser with role_ids, or assignRoles, returns, the cache entry
\* user_permissions:id holds no list computed from the old membership: the
\* entry is absent or is the list the new membership gives.
C3_MembershipInvalidates ==
  [][ /\ \A q \in BagToSet(reqs) : (UpdateUserWrite(q) /\ q.flag) => EntryCurrent(q.u)'
      /\ \A id \in UserIds, roleIds \in SortedLists(RoleIds) :
           (AssignRoles(id, roleIds) /\ last'.status = 200) => EntryCurrent(id)'
    ]_vars

\* ------------------------------------------------------------------------
\* SpecResolver: the resolver as a function of the store.  The initial state
\* is any store over the bounded ids: any set of roles beside the seeded one,
\* any permissions attached to them, any role_user rows of the admin user
\* (rows of roles that were deleted since included).
\* ------------------------------------------------------------------------
RoleNameOf(r) == IF r = 1 THEN SuperAdminName ELSE IF r = 2 THEN "Editor" ELSE "Viewer"

InitResolver ==
  /\ \E P \in {S \in SUBSET RoleIds : 1 \in S} :
       /\ roles = [r \in RoleIds |->
                    IF r \in P
                    THEN [present |-> TRUE, name |-> RoleNameOf(r), description |-> "",
                          is_system |-> r = 1]
                    ELSE NoRole]
       /\ permission_role \in SUBSET (P \X PermIds)
  /\ roleSeq = NumRoles
  /\ role_user \in SUBSET (RoleIds \X {1})
  /\ users = [u \in UserIds |->
               IF u = 1 THEN [present |-> TRUE, email |-> AdminEmail, deleted |-> FALSE,
                              verified |-> TRUE, active |-> TRUE]
               ELSE NoUserRow]
  /\ tokens = [u \in UserIds |-> 0]
  /\ cache = [u \in UserIds |-> NoEntry]
  /\ clock = [now |-> 0, changed |-> [u \in UserIds |-> 0]]
  /\ passwords = [u \in UserIds |-> IF u = 1 THEN HashMake(AdminPassword) ELSE ""]
  /\ email_verification_tokens = {}
  /\ password_reset_tokens = [e \in Emails |-> NoResetToken]
  /\ password_checks = [e \in Emails |-> 0]
  /\ attempts = [e \in Emails |-> 0]
  /\ audit_logs = <<>>
  /\ settings = [k \in SettingKeys |-> NoSetting]
  /\ setting_cache = [k \in SettingKeys \cup {AllKey} |-> NoEntry]
  /\ auth_store = initialState
  /\ reqs = EmptyBag
  /\ last = NoResp

NextResolver ==
  \/ \E u \in UserIds : GetUserPermissions(u)
  \/ \E u \in UserIds, p \in {PermName(i) : i \in PermIds} : HasPermission(u, p)

SpecResolver == InitResolver /\ [][NextResolver]_vars

\* the permission ids attached to at least one role of u
EffectiveIds(u) ==
  {x \in PermIds :
     \E r \in RoleIds : roles[r].present /\ <<r, u>> \in role_user /\ <<r, x>> \in permission_role}

\* C4: getUserPermissions(U) contains exactly the permissions attached to at
\* least one role of U, each once, and is empty when U has no roles;
\* hasPermission(U, name) is true exactly for the names of those permissions.
C4_UnionProperty ==
  [][ /\ \A u \in UserIds :
           GetUserPermissions(u) =>
             /\ Range(last'.val) = EffectiveIds(u)
             /\ Len(last'.val) = Cardinality(EffectiveIds(u))
             /\ (~\E r \in RoleIds : roles[r].present /\ <<r, u>> \in role_user) => last'.val = <<>>
      /\ \A u \in UserIds, p \in {PermName(i) : i \in PermIds} :
           HasPermission(u, p) =>
             last'.handled = (\E x \in EffectiveIds(u) : PermName(x) = p)
    ]_vars

\* C4 witness: the resolver has answered for a user with two roles that share
\* a permission, and the shared permission is in the answer
C4_Witness ==
  /\ last.op = "getUserPermissions"
  /\ \E r1, r2 \in RoleIds, x \in PermIds :
       /\ r1 # r2 /\ roles[r1].present /\ roles[r2].present
       /\ {<<r1, 1>>, <<r2, 1>>} \subseteq role_user
       /\ {<<r1, x>>, <<r2, x>>} \subseteq permission_role
       /\ x \in Range(last.val)

\* ------------------------------------------------------------------------
\* SpecRolePerms: RoleService::assignPermissions called with any id list
\* (any order, repetition, ids that name no permission), and role creation.
\* ------------------------------------------------------------------------
NextRolePerms ==
  \/ \E r \in RoleIds, ids \in PermIdLists : AssignPermissions(r, ids)
  \/ \E n \in RoleNames, ids \in SortedLists(PermIds) : CreateRoleCheck(n, FALSE, ids)
  \/ \E q \in BagToSet(reqs) : CreateRoleInsert(q)

SpecRolePerms == Init /\ [][NextRolePerms]_vars

\* ------------------------------------------------------------------------
\* SpecReplace: RoleService::assignPermissions called with lists of existing
\* permission ids in any order (a list that repeats an id is turned down by
\* validatePermissionIds and is among the inputs of SpecRolePerms), and role
\* creation.
\* ------------------------------------------------------------------------
DistinctIdLists == {s \in IdLists(PermIds) : Cardinality(Range(s)) = Len(s)}

NextReplace ==
  \/ \E r \in RoleIds, ids \in DistinctIdLists : AssignPermissions(r, ids)
  \/ \E n \in RoleNames : CreateRoleCheck(n, FALSE, <<>>)
  \/ \E q \in BagToSet(reqs) : CreateRoleInsert(q)

SpecReplace == Init /\ [][NextReplace]_vars

\* the permission ids attached to role r
PermsOf(r) == {x \in 1..(NumPerms + 1) : <<r, x>> \in permission_role}

\* C7: after assignPermissions(R, L) succeeds, R's permission set is exactly
\* the set of ids in L and no other role's permissions have changed.
C7_FullReplace ==
  [][ (last'.op = "assignPermissions" /\ last'.status = 200) =>
        \A r \in {Head(last'.val)}, ids \in {Tail(last'.val)} :
          AssignPermissions(r, ids) =>
            /\ PermsOf(r)' = Range(ids)
            /\ \A r2 \in RoleIds \ {r} : PermsOf(r2)' = PermsOf(r2)
    ]_vars

\* C7 witness: assignPermissions(1, [2]) has succeeded on the seeded role, which
\* held both permissions, while a second role holds permissions
C7_Witness ==
  /\ last.op = "assignPermissions" /\ last.status = 200 /\ last.val = <<1, 2>>
  /\ PermsOf(1) = {2}
  /\ roles[2].present /\ PermsOf(2) # {}

\* C8: for an existing role, assignPermissions(roleId, ids) succeeds whenever
\* every id names an existing permission, whatever the order or repetition of
\* the ids, fails exactly when some id names no permission, and on failure
\* leaves the role's permission set unchanged.
C8_PermissionIdValidation ==
  [][ (last'.op = "assignPermissions") =>
        \A r \in {Head(last'.val)}, ids \in {Tail(last'.val)} :
          (AssignPermissions(r, ids) /\ roles[r].present) =>
            /\ last'.status = IF Range(ids) \subseteq PermIds THEN 200 ELSE 422
            /\ last'.status # 200 => permission_role' = permission_role
    ]_vars

\* ------------------------------------------------------------------------
\* SpecRoleDelete: role deletion interleaved with role creation and with the
\* operations that change role membership.
\* ------------------------------------------------------------------------
NewEmail == "a@x.com"

NextRoleDelete ==
  \/ \E n \in RoleNames, isSystem \in BOOLEAN : CreateRoleCheck(n, isSystem, <<>>)
  \/ \E q \in BagToSet(reqs) : CreateRoleInsert(q)
  \/ \E r \in RoleIds : DeleteRoleCheck(r)
  \/ \E q \in BagToSet(reqs) : DeleteRoleDelete(q)
  \/ \E id \in UserIds, roleIds \in SortedLists(RoleIds) : AssignRoles(id, roleIds)
  \/ \E roleIds \in SortedLists(RoleIds) : CreateUserCheck(NewEmail, roleIds, TRUE)
  \/ \E q \in BagToSet(reqs) : CreateUserInsert(q)
  \/ \E id \in UserIds, roleIds \in SortedLists(RoleIds) : UpdateUserCheck(id, "", TRUE, roleIds)
  \/ \E q \in BagToSet(reqs) : UpdateUserWrite(q)
  \/ \E id \in UserIds : DeleteUser(id)

SpecRoleDelete == Init /\ [][NextRoleDelete]_vars

\* C5: deleteRole(id) on a role whose is_system flag is true fails with the
\* delete-blocking error and leaves the role and its permission associations
\* in place, whatever the number of attached users, including zero.
C5_SystemRoleUndeletable ==
  [][ /\ \A r \in RoleIds :
           (DeleteRoleCheck(r) /\ roles[r].present /\ roles[r].is_system) =>
             (last'.status = 422 /\ reqs' = reqs)
      /\ \A r \in RoleIds :
           (roles[r].present /\ roles[r].is_system) =>
             (roles'[r] = roles[r] /\ PermsOf(r)' = PermsOf(r))
    ]_vars

\* C6: a role with attached users is never deleted: under any interleaving of
\* deleteRole with createUser, updateUser and assignRoles, no step removes a
\* role to which a user is attached, so no user is attached to a role that no
\* longer exists.
C6_RoleWithUsersNeverDeleted ==
  [][ \A r \in RoleIds :
        (roles[r].present /\ ~roles'[r].present) =>
          ~\E u \in UserIds : <<r, u>> \in role_user /\ LiveUser(u)
    ]_vars

\* ------------------------------------------------------------------------
\* SpecUsers: user creation, registration, update of the email, deletion,
\* login and a token-authenticated request, interleaved.
\* ------------------------------------------------------------------------
NextUsers ==
  \/ \E email \in Emails : CreateUserCheck(email, <<>>, TRUE)
  \/ \E q \in BagToSet(reqs) : CreateUserInsert(q)
  \/ \E email \in Emails : RegisterCheck(email)
  \/ \E q \in BagToSet(reqs) : RegisterInsert(q)
  \/ \E id \in UserIds, email \in Emails : UpdateUserCheck(id, email, FALSE, <<>>)
  \/ \E q \in BagToSet(reqs) : UpdateUserWrite(q)
  \/ \E id \in UserIds : DeleteUser(id)
  \/ \E email \in Emails, pwOk \in BOOLEAN : LoginCheck(email, pwOk)
  \/ \E q \in BagToSet(reqs) : LoginToken(q)
  \/ \E u \in UserIds : Logout(u)

SpecUsers == Init /\ [][NextUsers]_vars

\* C9: after any sequence or interleaving of createUser, register, updateUser
\* and deleteUser (soft delete, row retained) no two user rows hold the same
\* email.
C9_EmailUnique ==
  \A u, v \in UserIds :
    (u # v /\ users[u].present /\ users[v].present) => users[u].email # users[v].email

\* ------------------------------------------------------------------------
\* SpecTokens: login, token-authenticated requests and user deletion,
\* interleaved, with users added by POST /users.
\* ------------------------------------------------------------------------
NextTokens ==
  \/ CreateUserCheck(NewEmail, <<>>, TRUE)
  \/ \E q \in BagToSet(reqs) : CreateUserInsert(q)
  \/ \E id \in UserIds : DeleteUser(id)
  \/ \E email \in Emails, pwOk \in BOOLEAN : LoginCheck(email, pwOk)
  \/ \E q \in BagToSet(reqs) : LoginToken(q)
  \/ \E u \in UserIds : Logout(u)

SpecTokens == Init /\ [][NextTokens]_vars

MonotoneIdLists ==
  {s \in PermIdLists :
     \/ \A i \in 1..(Len(s) - 1) : s[i] <= s[i + 1]
     \/ \A i \in 1..(Len(s) - 1) : s[i] >= s[i + 1]}

NextCreateRole ==
  \/ \E n \in RoleNames, isSystem \in BOOLEAN, ids \in MonotoneIdLists :
       CreateRoleCheck(n, isSystem, ids)
  \/ \E q \in BagToSet(reqs) : CreateRoleInsert(q)

SpecCreateRole == Init /\ [][NextCreateRole]_vars

\* C11: createRole called with permission ids of which at least one does not
\* exist fails and adds no role row (with or without permissions); a failing
\* createRole never changes the store; when createRole succeeds the role
\* exists with exactly the given permissions.
C11_CreateRoleAtomic ==
  [][ \A q \in BagToSet(reqs) :
        CreateRoleInsert(q) =>
          /\ ~(Range(q.ids) \subseteq PermIds) => last'.status = 422
          /\ last'.status # 201 =>
               (roles' = roles /\ permission_role' = permission_role)
          /\ last'.status = 201 =>
               \E r \in RoleIds :
                 /\ ~roles[r].present /\ roles'[r].present /\ roles'[r].name = q.name
                 /\ PermsOf(r)' = Range(q.ids)
                 /\ \A r2 \in RoleIds \ {r} : roles'[r2] = roles[r2] /\ PermsOf(r2)' = PermsOf(r2)
    ]_vars

\* C11 witness: a createRole whose list named a missing permission has failed
\* and no role beside the seeded one exists, a worker being still at work on
\* another createRole
C11_Witness ==
  /\ last.op = "createRole" /\ last.status = 422
  /\ \A r \in RoleIds \ {1} : ~roles[r].present
  /\ InFlight({"role_insert"}) > 0

\* ------------------------------------------------------------------------
\* SpecRoles: role creation and PUT /roles/{role}, interleaved.
\* ------------------------------------------------------------------------
\* the patches sent: one key each (a new name, a new description, or the flag)
Patches ==
  {<<n, Unset, Unset>> : n \in RoleNames \cup {SuperAdminName}}
    \cup {<<Unset, "edited", Unset>>, <<Unset, Unset, "true">>, <<Unset, Unset, "false">>}

NextRoles ==
  \/ \E n \in RoleNames, isSystem \in BOOLEAN : CreateRoleCheck(n, isSystem, <<>>)
  \/ \E q \in BagToSet(reqs) : CreateRoleInsert(q)
  \/ \E id \in RoleIds, patch \in Patches :
       UpdateRoleCheck(id, patch[1], patch[2], patch[3])
  \/ \E q \in BagToSet(reqs) : UpdateRoleWrite(q)
  \/ \E q \in BagToSet(reqs) : UpdateRoleClearRead(q)
  \/ \E q \in BagToSet(reqs) : UpdateRoleClearForget(q)
  \/ \E q \in BagToSet(reqs) : UpdateRoleReturn(q)

SpecRoles == Init /\ [][NextRoles]_vars

\* C12: after any sequence or interleaving of createRole and updateRole calls
\* no two roles have the same name.
C12_RoleNameUnique ==
  \A r1, r2 \in RoleIds :
    (r1 # r2 /\ roles[r1].present /\ roles[r2].present) => roles[r1].name # roles[r2].name

\* C13: no PUT /roles/{role} request changes the name, the description or the
\* is_system flag of a role whose is_system flag is true.
C13_SystemRoleImmutable ==
  [][ \A r \in RoleIds :
        (roles[r].present /\ roles[r].is_system) => roles'[r] = roles[r]
    ]_vars

\* ------------------------------------------------- frontend: auth store
\* Array.prototype.includes
includes(array, x) == \E i \in 1..Len(array) : array[i] = x

\* useAuthStore: hasPermission, hasAnyPermission, hasAllPermissions;
\* array.some(f) holds when f holds of an element, array.every(f) when f holds
\* of each element
storeHasPermission(permission) == includes(auth_store.permissions, permission)
hasAnyPermission(permissions) ==
  LET userPermissions == auth_store.permissions
  IN  \E i \in 1..Len(permissions) : includes(userPermissions, permissions[i])
hasAllPermissions(permissions) ==
  LET userPermissions == auth_store.permissions
  IN  \A i \in 1..Len(permissions) : includes(userPermissions, permissions[i])

\* a call made by the page: nothing but the answer changes
Returns(op, permissions, result) ==
  /\ last' = [Resp(op, 200) EXCEPT !.val = <<permissions, result>>]
  /\ UNCHANGED <<storeVars, cache, reqs>>

\* checkAnyPermission / checkAllPermissions
CheckAnyPermission(permissions) ==
  Returns("hasAnyPermission", permissions, hasAnyPermission(permissions))
CheckAllPermissions(permissions) ==
  Returns("hasAllPermissions", permissions, hasAllPermissions(permissions))

\* <Can permission permissions requireAll>: whether the children are rendered;
\* permission = "" is the prop left out
Can(permission, permissions, requireAll) ==
  Returns("Can", permissions,
          IF permission # "" THEN storeHasPermission(permission)
          ELSE IF Len(permissions) > 0
          THEN (IF requireAll THEN hasAllPermissions(permissions)
                ELSE hasAnyPermission(permissions))
          ELSE TRUE)

\* ------------------------------------------------------------------------
\* SpecAuditLogger: requests pass through the AuditLogger middleware one at a
\* time, with every user, method, path and handler outcome.
\* ------------------------------------------------------------------------
LoggerData == {EmptyMap, [k \in {"password"} |-> Str("secret123")]}

NextAuditLogger ==
  \/ /\ reqs = EmptyBag
     /\ Len(audit_logs) < MaxLogged
     /\ \E user \in {NullId, 1}, method \in Methods, route \in Routes,
           data \in LoggerData, status \in Statuses, id \in {NullId, 2} :
          AuditLoggerNext(user, method, route, data, status, id)
  \/ \E q \in BagToSet(reqs) : AuditLoggerLog(q)
  \/ \E q \in BagToSet(reqs) : AuditLoggerLogFails(q)

SpecAuditLogger == Init /\ [][NextAuditLogger]_vars

\* C18: the AuditLogger middleware appends an entry only after the handler
\* has run and only when the request has an authenticated user, its method is
\* POST, PUT, PATCH or DELETE, its path is not an excluded auth route and the
\* response status is 2xx; a request answered with a non-2xx status appends
\* no entry.
C18_LoggedOnlyOnSuccess ==
  [][ audit_logs' # audit_logs =>
        \E q \in BagToSet(reqs) :
          /\ q.pc = "audit_should_log"
          /\ reqs' = reqs (-) SetToBag({q})
          /\ q.u # NullId
          /\ q.method \in {"POST", "PUT", "PATCH", "DELETE"}
          /\ q.path \notin excludedRoutes
          /\ q.status \in 200..299
          /\ last'.status = q.status
          /\ audit_logs' = Append(audit_logs, audit_logs'[Len(audit_logs')])
    ]_vars

\* C18 witness: a POST /api/users answered 201 has passed through the
\* middleware and left its entry
C18_Witness ==
  /\ last.op = "audit" /\ last.status = 201 /\ last.handled
  /\ Len(audit_logs) = 1
  /\ audit_logs[1].action = "create" /\ audit_logs[1].resource = "users"
  /\ audit_logs[1].resource_id = 2 /\ audit_logs[1].user_id = 1
  /\ audit_logs[1].new_values = Values([k \in {"password"} |-> Redacted])

\* ------------------------------------------------------------------------
\* SpecRedact: the audit wrappers called with any old / new value maps.
\* ------------------------------------------------------------------------
NextRedact ==
  \/ /\ Len(audit_logs) < MaxLogged
     /\ \E newValues \in InputMaps : LogCreate(1, "users", 1, newValues)
  \/ /\ Len(audit_logs) < MaxLogged
     /\ \E oldValues \in InputMaps, newValues \in InputMaps :
          LogUpdate(1, "users", 1, oldValues, newValues)
  \/ /\ Len(audit_logs) < MaxLogged
     /\ \E oldValues \in InputMaps : LogDelete(1, "users", 1, oldValues)

SpecRedact == Init /\ [][NextRedact]_vars

\* the snapshot the claim expects for the input map m: the marker at each
\* sensitive key present, every other key as given
RedactedAll(m) == [k \in DOMAIN m |-> IF k \in SensitiveFields THEN Redacted ELSE m[k]]

\* ... and with a null left at a sensitive key whose value is null
RedactedSet(m) ==
  [k \in DOMAIN m |->
     IF k \in SensitiveFields /\ m[k] # Null THEN Redacted ELSE m[k]]

\* the row appended by the step
Appended == audit_logs'[Len(audit_logs')]

NextAudit ==
  LET TopMap == [k \in {"password"} |-> Str("secret123")]
      NestedMap == [k \in {"name"} |-> Arr([k2 \in {"password"} |-> "secret123"])]
  IN
  \/ /\ reqs = EmptyBag
     /\ Log(1, "update", "users", 1, NoValues, Values(TopMap))
  \/ /\ reqs = EmptyBag
     /\ LogCreate(1, "users", 2, NestedMap)
  \/ /\ reqs = EmptyBag
     /\ LogUpdate(1, "users", 2, TopMap, NestedMap)
  \/ /\ reqs = EmptyBag
     /\ LogDelete(1, "users", 2, TopMap)
  \/ /\ reqs = EmptyBag
     /\ LogAuth(1, "login")
  \/ /\ reqs = EmptyBag
     /\ \E route \in {r \in Routes : r.id # NullId}, status \in {200, 422} :
          AuditLoggerNext(1, "PUT", route, NestedMap, status, NullId)
  \/ \E q \in BagToSet(reqs) : AuditLoggerLog(q)
  \/ \E q \in BagToSet(reqs) : AuditLoggerLogFails(q)
  \/ /\ reqs = EmptyBag
     /\ \E value \in SettingValues :
          SettingSetStart(1, "set", "company_name", value, "json", <<>>)
  \/ /\ reqs = EmptyBag
     /\ UpdateMultipleStart(1, <<<<"company_name",
            [wrapped |-> TRUE, value |-> Str("Acme"), type |-> "json"]>>>>)
  \/ \E q \in BagToSet(reqs) : SettingSetGet(q)
  \/ \E q \in BagToSet(reqs) : SettingWrite(q)
  \/ \E q \in BagToSet(reqs) : SettingForget(q)
  \/ \E q \in BagToSet(reqs) : SettingSetLog(q)
  \/ \E q \in BagToSet(reqs) : SettingLogFails(q)
  \/ \E q \in BagToSet(reqs) : UpdateMultipleGetAll(q)
  \/ \E q \in BagToSet(reqs) : UpdateMultipleLog(q)

SpecAudit == Init /\ [][NextAudit]_vars

\* C16: the audit log is append-only: each step leaves the sequence of
\* existing entries unchanged and adds at most new entries at the end.
C16_AppendOnly ==
  [][ /\ Len(audit_logs') >= Len(audit_logs)
      /\ SubSeq(audit_logs', 1, Len(audit_logs)) = audit_logs
    ]_vars

\* C16 witness: a second entry, different from the first, has been appended
\* by another operation than the one that wrote the first
C16_Witness ==
  /\ Len(audit_logs) = 2
  /\ audit_logs[1] # audit_logs[2]
  /\ audit_logs[1].resource = "system_settings"
  /\ audit_logs[2].resource = "users"

\* a value map holds, at the top or one level down, a sensitive key whose
\* value is not the redaction marker
HoldsSensitive(m) ==
  \E k \in DOMAIN m :
    \/ k \in SensitiveFields /\ m[k] # Redacted
    \/ /\ m[k].kind = "array"
       /\ \E k2 \in DOMAIN m[k].sub :
            k2 \in SensitiveFields /\ m[k].sub[k2] \notin {"[REDACTED]", Redacted}

\* C15: in every reachable state, every audit log entry, whichever entry point
\* created it, has in its old_values and new_values no key from the sensitive
\* list, at the top level or nested, whose value is anything other than the
\* redaction marker.
C15_NoSensitiveValuePersisted ==
  \A i \in 1..Len(audit_logs) :
    /\ ~HoldsSensitive(audit_logs[i].old_values.map)
    /\ ~HoldsSensitive(audit_logs[i].new_values.map)

\* C19: when persisting the audit entry fails during SystemSettingService.set,
\* updateMultiple or a request passing through AuditLogger.handle, the primary
\* mutation remains applied and the operation still completes with its normal
\* success result.
C19_AuditFailureTolerated ==
  [][ \A q \in BagToSet(reqs) :
        /\ SettingLogFails(q) =>
             (last'.status = 200 /\ settings' = settings /\ settings[q.key].present)
        /\ AuditLoggerLogFails(q) => last'.status = q.status
    ]_vars

\* ------------------------------------------------------------------------
\* SpecApi: the API routes that delete users, create roles, log in and out,
\* and update the settings, with the audit log they leave.
\* ------------------------------------------------------------------------
NextApi ==
  \/ \E id \in UserIds : DeleteUser(id)
  \/ LoginCheck(AdminEmail, TRUE)
  \/ \E q \in BagToSet(reqs) : LoginToken(q)
  \/ \E u \in UserIds : Logout(u)
  \/ CreateRoleCheck("Editor", FALSE, <<>>)
  \/ \E q \in BagToSet(reqs) : CreateRoleInsert(q)
  \/ \E u \in UserIds, value \in {Null, Str("Acme")} :
       Authenticates(u) /\ SettingsUpdate(u, <<<<"company_name", value>>>>)
  \/ \E q \in BagToSet(reqs) : SettingSetGet(q)
  \/ \E q \in BagToSet(reqs) : SettingWrite(q)
  \/ \E q \in BagToSet(reqs) : SettingForget(q)
  \/ \E q \in BagToSet(reqs) : SettingSetLog(q)
  \/ \E q \in BagToSet(reqs) : SettingLogFails(q)
  \/ \E q \in BagToSet(reqs) : SettingsUpdateRead(q)

SpecApi == Init /\ [][NextApi]_vars

\* the action an audit entry carries for a successful response of the API
RecordedAs(op) ==
  CASE op = "createRole" -> "create"
    [] op = "deleteUser" -> "delete"
    [] op = "updateSettings" -> "update"
    [] OTHER -> op

\* C17: each successful create, update or delete of a user, a role or a system
\* setting through the API routes, and each successful login and logout, is
\* followed by the append of one audit log entry carrying that action: once
\* the response is out, the entry is in the log.
C17_MutationsRecorded ==
  (/\ last.op \in {"deleteUser", "createRole", "login", "logout", "updateSettings"}
   /\ last.status \in 200..299)
    => \E i \in 1..Len(audit_logs) : audit_logs[i].action = RecordedAs(last.op)

\* ------------------------------------------------------------------------
\* SpecCan: the permission checks of the frontend, for every list of held
\* permissions and every list of required ones.
\* ------------------------------------------------------------------------
HeldLists == IdLists({PermName(p) : p \in PermIds})

InitCan ==
  /\ Seeded
  /\ auth_store \in
       {initialState} \cup
       {[user |-> 1, token |-> "token", isAuthenticated |-> TRUE, permissions |-> held] :
          held \in HeldLists}

NextCan ==
  \/ \E permissions \in HeldLists : CheckAnyPermission(permissions)
  \/ \E permissions \in HeldLists : CheckAllPermissions(permissions)
  \/ \E permission \in {"", PermName(1)}, permissions \in HeldLists, requireAll \in BOOLEAN :
       Can(permission, permissions, requireAll)

SpecCan == InitCan /\ [][NextCan]_vars

\* C20: for every user and every held permission set, hasAnyPermission(U, [])
\* and hasAllPermissions(U, []) both return true.
C20_EmptyRequirementAllows ==
  (last.op \in {"hasAnyPermission", "hasAllPermissions"} /\ last.val[1] = <<>>)
    => last.val[2]

\* ------------------------------------------------------------------------
\* SpecSettings: SystemSetting::get and getAll beside SystemSettingService::set
\* writing the same key, on concurrent workers.
\* ------------------------------------------------------------------------
Defaults == {Null, Str("")}

NextSettings ==
  \/ \E key \in {"company_name", AllKey}, default \in Defaults :
       (key = AllKey => default = Null) /\ SettingGetRead(key, default)
  \/ \E q \in BagToSet(reqs) : SettingGetPut(q)
  \/ \E value \in SettingValues : SettingSetStart(1, "set", "company_name", value, "json", <<>>)
  \/ \E q \in BagToSet(reqs) : SettingSetGet(q)
  \/ \E q \in BagToSet(reqs) : SettingWrite(q)
  \/ \E q \in BagToSet(reqs) : SettingForget(q)
  \/ \E q \in BagToSet(reqs) : SettingSetLog(q)
  \/ \E q \in BagToSet(reqs) : SettingLogFails(q)

SpecSettings == Init /\ [][NextSettings]_vars

\* C21: once set has returned and no later write to that key occurs, every
\* get(key) returns the cast of the newly written value and getAll()[key]
\* agrees with it, for every interleaving with concurrent get and getAll
\* calls: with no call in progress, an entry the cache holds for a written key
\* is the cast of the stored value, and so is the key's value in the "all" entry.
C21_SettingsCacheCoherent ==
  reqs = EmptyBag =>
    \A k \in SettingKeys :
      settings[k].present =>
        /\ setting_cache[k].hit => setting_cache[k].val = StoredValue(k, Null)
        /\ setting_cache[AllKey].hit => setting_cache[AllKey].val = StoredAll

\* C29: get(key, d) for a key that has no stored setting returns d, whatever
\* defaults earlier get calls for the same key supplied.
C29_DefaultHonoured ==
  [][ \A d \in Defaults :
        (/\ SettingGetRead("company_name", d)
         /\ ~settings["company_name"].present
         /\ last' # last)
          => last'.val = <<"company_name", d, d>>
    ]_vars

\* ------------------------------------------------------------------------
\* SpecRolePivot: role creation, RoleService::deleteRole and
\* RoleService::assignPermissions as the statements they run, taken by
\* concurrent requests. No constraint of the store ties a permission_role row
\* to a roles row.
\* ------------------------------------------------------------------------
\* RoleService::assignPermissions up to the sync: findOrFail, validatePermissionIds
AssignPermissionsFind(r, ids) ==
  /\ CASE assignPermissionsOutcome(r, ids) = "not_found" -> Answer(AssignResp(404))
       [] assignPermissionsOutcome(r, ids) = "invalid" -> Answer(AssignResp(422))
       [] OTHER -> Begin("assign_sync", [NoLoc EXCEPT !.r = r, !.ids = ids])
  /\ UNCHANGED <<storeVars, cache>>

\* $role->permissions()->sync($permissionIds) on the model loaded by
\* findOrFail, then $role->fresh()->load('permissions'): fresh() is null when
\* the row is gone, and the call on null is an Error after the sync was written
AssignPermissionsSync(q) ==
  /\ At(q, "assign_sync")
  /\ permission_role' = SyncRolePermissions(q.r, q.ids)
  /\ Finish(q, [AssignResp(IF roles[q.r].present THEN 200 ELSE 500)
                  EXCEPT !.val = <<q.r>> \o q.ids])
  /\ UNCHANGED <<roles, roleSeq, role_user, users, tokens, cache, otherVars>>

NextRolePivot ==
  \/ \E n \in RoleNames : CreateRoleCheck(n, FALSE, <<>>)
  \/ \E q \in BagToSet(reqs) : CreateRoleInsert(q)
  \/ \E r \in RoleIds : DeleteRoleCheck(r)
  \/ \E q \in BagToSet(reqs) : DeleteRoleDelete(q)
  \/ \E r \in RoleIds, ids \in DistinctIdLists : AssignPermissionsFind(r, ids)
  \/ \E q \in BagToSet(reqs) : AssignPermissionsSync(q)

SpecRolePivot == Init /\ [][NextRolePivot]_vars

\* C22: a successful deleteRole(id) detaches all of the role's permissions and
\* removes the role as one atomic step, so that in every reachable state no
\* role-permission association refers to a role that does not exist.
C22_NoOrphanRolePermission ==
  \A rp \in permission_role : rp[1] \in RoleIds /\ roles[rp[1]].present

\* ------------------------------------------------------------------------
\* SpecTtl: guarded requests, changes of a user's roles (which clear no cache
\* entry) and the passing of time.  Time is counted in units of
\* PermissionService::CACHE_TTL; a request lasts less than one unit, so it is
\* in flight over at most one step of the clock.
\* ------------------------------------------------------------------------
\* PermissionService::CACHE_TTL, in units of itself
CACHE_TTL == 1
MaxTime == 3

\* a clock under which no entry ever expires
TickNoExpiry ==
  /\ clock.now < MaxTime
  /\ \A q \in BagToSet(reqs) : q.at = clock.now
  /\ clock' = [clock EXCEPT !.now = @ + 1]
  /\ UNCHANGED <<roles, roleSeq, permission_role, role_user, users, tokens, cache,
                 syncedVars, reqs, last>>

\* the time Cache reads moves on by CACHE_TTL: Cache::remember stored every
\* entry with the expiry (time of the put) + CACHE_TTL, so each entry written
\* before this step is past its expiry and is a miss from now on
Tick ==
  /\ clock.now < MaxTime
  /\ \A q \in BagToSet(reqs) : q.at = clock.now
  /\ clock' = [clock EXCEPT !.now = @ + 1]
  /\ cache' = [u \in UserIds |-> NoEntry]
  /\ UNCHANGED <<roles, roleSeq, permission_role, role_user, users, tokens,
                 syncedVars, reqs, last>>

NextTtl ==
  \/ \E p \in RequiredPermissions : HandleStart(1, p)
  \/ \E q \in BagToSet(reqs) : HandlePut(q)
  \/ \E roleIds \in SortedLists(RoleIds) : AssignRoles(1, roleIds)
  \/ \E roleIds \in SortedLists(RoleIds) : UpdateUserCheck(1, "", TRUE, roleIds)
  \/ \E q \in BagToSet(reqs) : UpdateUserWrite(q)
  \/ Tick

SpecTtl == Init /\ [][NextTtl]_vars

\* the list a request in flight for u holds was read from the store as it is now
ReadCurrent(u) ==
  \A q \in BagToSet(reqs) :
    (q.pc = "remember_put" /\ q.u = u) => Range(q.perms) = EffectiveNames(u)

MaxStamp == 2

\* AuditLogService::log at time `at`: AuditLog::create, created_at by the store
LogAt(user, action, resource, resourceId, at) ==
  /\ \A i \in 1..Len(audit_logs) : audit_logs[i].created_at <= at
  /\ AuditLogCreate(Entry(user, action, resource, resourceId, NoValues, NoValues)
                      @@ [created_at |-> at])
  /\ Answer(Resp("log", 200))
  /\ UNCHANGED <<rbacVars, settingVars>>

\* PHP empty() of a filter: null, "" and "0" are empty
empty(v) == v.isnull \/ v.text \in {"", "0"}

\* the number the store compares a numeric column with, given the string
IntOf(text) == CHOOSE n \in 0..9 : ToString(n) = text

\* the where() clauses getLogs adds: one per filter that is not empty
Where(row, filters) ==
  /\ ~empty(filters.user_id) => row.user_id = IntOf(filters.user_id.text)
  /\ ~empty(filters.action) => row.action = filters.action.text
  /\ ~empty(filters.resource) => row.resource = filters.resource.text
  /\ ~empty(filters.resource_id) =>
       (row.resource_id # NullId /\ row.resource_id = IntOf(filters.resource_id.text))
  /\ ~empty(filters.start_date) => row.created_at >= IntOf(filters.start_date.text)
  /\ ~empty(filters.end_date) => row.created_at <= IntOf(filters.end_date.text)

\* $filters['sort_direction'] ?? 'desc'
SortDirection(filters) ==
  IF filters.sort_direction.isnull THEN "desc" ELSE filters.sort_direction.text

\* orderBy('created_at', direction) holds of the list of row numbers s
OrderedBy(s, direction) ==
  \A i, j \in 1..Len(s) :
    i < j => IF direction = "asc"
             THEN audit_logs[s[i]].created_at <= audit_logs[s[j]].created_at
             ELSE audit_logs[s[i]].created_at >= audit_logs[s[j]].created_at

\* the answers the query may give before it is cut into pages: the selected
\* rows in any order that orderBy('created_at') allows
QueryResults(filters) ==
  LET selected == {i \in 1..Len(audit_logs) : Where(audit_logs[i], filters)}
  IN {s \in IdLists(selected) :
        /\ Len(s) = Cardinality(selected)
        /\ Range(s) = selected
        /\ OrderedBy(s, SortDirection(filters))}

\* paginate($perPage): the rows of page `page`
Paginate(s, perPage, page) ==
  SubSeq(s, (page - 1) * perPage + 1,
         IF page * perPage < Len(s) THEN page * perPage ELSE Len(s))

\* getLogs($filters, $perPage) for the page asked for; `val` keeps the
\* arguments and the row numbers returned
GetLogs(filters, perPage, page) ==
  /\ \E s \in QueryResults(filters) :
       Answer([Resp("getLogs", 200)
                 EXCEPT !.val = <<filters, perPage, page, Paginate(s, perPage, page)>>])
  /\ UNCHANGED <<storeVars, cache>>

\* the filters of a request: what AuditLogController::index lets through
\* (strings or null, end_date after_or_equal start_date)
FilterSets ==
  {f \in [user_id : {NullString, String("1")},
          action : {NullString, String("create")},
          resource : {NullString, String("users")},
          resource_id : {NullString, String("0"), String("1")},
          start_date : {NullString, String("2")},
          end_date : {NullString, String("1")},
          sort_direction : {NullString, String("asc")}] :
     (~f.start_date.isnull /\ ~f.end_date.isnull) =>
        IntOf(f.start_date.text) <= IntOf(f.end_date.text)}

NextGetLogs ==
  \/ \E at \in 1..MaxStamp,
          call \in {<<1, "login", "auth", NullId>>, <<2, "create", "users", 1>>} :
       LogAt(call[1], call[2], call[3], call[4], at)
  \/ \E filters \in FilterSets, page \in {<<15, 1>>, <<1, 2>>} :
       GetLogs(filters, page[1], page[2])

SpecGetLogs == Init /\ [][NextGetLogs]_vars

\* the row matches every filter that was supplied (is not null)
MatchesSupplied(row, f) ==
  /\ ~f.user_id.isnull => row.user_id = IntOf(f.user_id.text)
  /\ ~f.action.isnull => row.action = f.action.text
  /\ ~f.resource.isnull => row.resource = f.resource.text
  /\ ~f.resource_id.isnull =>
       (row.resource_id # NullId /\ row.resource_id = IntOf(f.resource_id.text))
  /\ ~f.start_date.isnull => row.created_at >= IntOf(f.start_date.text)
  /\ ~f.end_date.isnull => row.created_at <= IntOf(f.end_date.text)

\* C24: for every audit log content and every combination of supplied filters
\* the entries getLogs returns are exactly those that match every supplied
\* filter, ordered by creation time, descending unless sort_direction is asc:
\* every row of a page matches, the page is in order, and a page that is long
\* enough holds every matching row.
C24_ExactlyMatchingInOrder ==
  [][ (last'.op = "getLogs" /\ last' # last) =>
        LET f == last'.val[1]
            perPage == last'.val[2]
            rows == last'.val[4]
        IN /\ \A i \in Range(rows) : MatchesSupplied(audit_logs[i], f)
           /\ OrderedBy(rows, IF ~f.sort_direction.isnull /\ f.sort_direction.text = "asc"
                              THEN "asc" ELSE "desc")
           /\ (perPage >= Len(audit_logs) /\ last'.val[3] = 1) =>
                Range(rows) = {i \in 1..Len(audit_logs) : MatchesSupplied(audit_logs[i], f)}
    ]_vars

\* ------------------------------------------------------------------------
\* SpecLogin: AuthService::login as the statements it runs, taken by
\* concurrent requests for the admin's email, within one lockout window.
\* ------------------------------------------------------------------------
Passwords == {AdminPassword, "newpass456"}

\* AuthService::login: checkLoginAttempts (Cache::get, compared with the limit)
LoginAttempt(email, password) ==
  /\ IF attempts[email] >= MAX_LOGIN_ATTEMPTS
     THEN Answer([Resp("login", 401) EXCEPT !.val = <<email, "locked">>])
     ELSE Begin("login_credentials", [NoLoc EXCEPT !.email = email, !.p = password])
  /\ UNCHANGED <<storeVars, cache>>

\* login without the email_verified_at check
LoginCredentialsNoVerify(q) ==
  LET u == UserByEmail(q.email)
  IN /\ At(q, "login_credentials")
     /\ IF u = 0 \/ ~HashCheck(q.p, passwords[u])
        THEN /\ Goto(q, "increment_put", [q EXCEPT !.n = attempts[q.email]])
             /\ password_checks' =
                  IF u # 0 /\ password_checks[q.email] <= MAX_LOGIN_ATTEMPTS
                  THEN [password_checks EXCEPT ![q.email] = @ + 1]
                  ELSE password_checks
             /\ UNCHANGED attempts
        ELSE IF ~users[u].active
        THEN /\ Finish(q, [Resp("login", 401) EXCEPT !.val = <<q.email, "refused">>])
             /\ UNCHANGED <<attempts, password_checks>>
        ELSE /\ attempts' = [attempts EXCEPT ![q.email] = 0]
             /\ Goto(q, "login_token", [q EXCEPT !.u = u])
             /\ password_checks' = [password_checks EXCEPT ![q.email] = 0]
     /\ UNCHANGED <<roles, roleSeq, permission_role, role_user, users, tokens, cache,
                    auditVars, settingVars, frontVars, passwords,
                    email_verification_tokens, password_reset_tokens, clock>>

\* AuthService::login: the user lookup and Hash::check; on failure the
\* Cache::get of incrementLoginAttempts, else the verified and active checks
\* and clearLoginAttempts.  password_checks counts the failed checks since
\* the last login that succeeded, up to one past the limit.
LoginCredentials(q) ==
  LET u == UserByEmail(q.email)
  IN /\ At(q, "login_credentials")
     /\ IF u = 0 \/ ~HashCheck(q.p, passwords[u])
        THEN /\ Goto(q, "increment_put", [q EXCEPT !.n = attempts[q.email]])
             /\ password_checks' =
                  IF u # 0 /\ password_checks[q.email] <= MAX_LOGIN_ATTEMPTS
                  THEN [password_checks EXCEPT ![q.email] = @ + 1]
                  ELSE password_checks
             /\ UNCHANGED attempts
        ELSE IF ~users[u].verified \/ ~users[u].active
        THEN /\ Finish(q, [Resp("login", 401) EXCEPT !.val = <<q.email, "refused">>])
             /\ UNCHANGED <<attempts, password_checks>>
        ELSE /\ attempts' = [attempts EXCEPT ![q.email] = 0]
             /\ Goto(q, "login_token", [q EXCEPT !.u = u])
             /\ password_checks' = [password_checks EXCEPT ![q.email] = 0]
     /\ UNCHANGED <<roles, roleSeq, permission_role, role_user, users, tokens, cache,
                    auditVars, settingVars, frontVars, passwords,
                    email_verification_tokens, password_reset_tokens, clock>>

\* incrementLoginAttempts: Cache::put of the count read plus one
IncrementPut(q) ==
  /\ At(q, "increment_put")
  /\ attempts' = [attempts EXCEPT ![q.email] = q.n + 1]
  /\ Finish(q, [Resp("login", 401) EXCEPT !.val = <<q.email, "credentials">>])
  /\ UNCHANGED <<roles, roleSeq, permission_role, role_user, users, tokens, cache,
                 auditVars, settingVars, frontVars, authVars, clock>>

NextLogin ==
  \/ \E password \in Passwords : LoginAttempt(AdminEmail, password)
  \/ \E q \in BagToSet(reqs) : LoginCredentials(q)
  \/ \E q \in BagToSet(reqs) : IncrementPut(q)
  \/ \E q \in BagToSet(reqs) : LoginToken(q)

SpecLogin == Init /\ [][NextLogin]_vars

\* C25: once MAX_LOGIN_ATTEMPTS failed attempts are recorded for an email a
\* further login is rejected before the credentials are checked, whatever the
\* password; under any interleaving at most MAX_LOGIN_ATTEMPTS wrong-password
\* checks are made per email and window; a successful login resets the count
\* to zero.
C25_LockoutAfterFiveFailures ==
  [][ /\ \A password \in Passwords :
           (LoginAttempt(AdminEmail, password) /\ attempts[AdminEmail] >= MAX_LOGIN_ATTEMPTS)
             => (last'.status = 401 /\ reqs' = reqs)
      /\ \A q \in BagToSet(reqs) :
           (LoginCredentials(q) /\ InFlight({"login_token"})' > InFlight({"login_token"}))
             => attempts'[q.email] = 0
      /\ \A e \in Emails : password_checks'[e] <= MAX_LOGIN_ATTEMPTS
    ]_vars

\* ------------------------------------------------------------------------
\* SpecLoginGate: register, verifyEmail, createUser, updateUser, deleteUser
\* and login, one call after the other; the logins are for the email of the
\* account that is registered or created.
\* ------------------------------------------------------------------------
\* AuthService::verifyEmail with the token sent to `email` (a token that
\* matches no row when none is stored for it)
VerifyEmail(email) ==
  LET u == UserByEmail(email)
  IN /\ IF email \notin email_verification_tokens \/ u = 0
        THEN /\ Answer([Resp("verifyEmail", 400) EXCEPT !.val = <<email>>])
             /\ UNCHANGED <<users, email_verification_tokens>>
        ELSE /\ users' = [users EXCEPT ![u].verified = TRUE]
             /\ email_verification_tokens' = email_verification_tokens \ {email}
             /\ Answer([Resp("verifyEmail", 200) EXCEPT !.val = <<email>>])
     /\ UNCHANGED <<roles, roleSeq, permission_role, role_user, tokens, cache, attempts,
                    auditVars, settingVars, frontVars, passwords, password_reset_tokens,
                    password_checks, clock>>

\* UserService::updateUser called with is_active alone in the data
UpdateUserActive(id, is_active) ==
  /\ IF ~LiveUser(id)
     THEN Answer(Resp("updateUser", 404)) /\ UNCHANGED users
     ELSE /\ users' = [users EXCEPT ![id].active = is_active]
          /\ Answer(Resp("updateUser", 200))
  /\ UNCHANGED <<roles, roleSeq, permission_role, role_user, tokens, cache, otherVars>>

NextLoginGate ==
  \/ reqs = EmptyBag /\ RegisterCheck(NewEmail)
  \/ \E q \in BagToSet(reqs) : RegisterInsert(q)
  \/ \E email \in Emails : reqs = EmptyBag /\ VerifyEmail(email)
  \/ \E verified \in BOOLEAN : reqs = EmptyBag /\ CreateUserCheck(NewEmail, <<>>, verified)
  \/ \E q \in BagToSet(reqs) : CreateUserInsert(q)
  \/ \E id \in UserIds, is_active \in BOOLEAN : reqs = EmptyBag /\ UpdateUserActive(id, is_active)
  \/ \E id \in UserIds : reqs = EmptyBag /\ DeleteUser(id)
  \/ \E password \in Passwords : reqs = EmptyBag /\ LoginAttempt(NewEmail, password)
  \/ \E q \in BagToSet(reqs) : LoginCredentials(q)
  \/ \E q \in BagToSet(reqs) : IncrementPut(q)
  \/ \E q \in BagToSet(reqs) : LoginToken(q)

SpecLoginGate == Init /\ [][NextLoginGate]_vars

\* C26: in every sequence of register, verifyEmail, createUser, updateUser,
\* deleteUser and login, login issues a token only for an existing, non-deleted
\* user with the email given whose password matches, whose email is verified
\* and whose is_active is true; and a user that register created becomes
\* verified only by a verifyEmail that succeeds for its email.
C26_LoginGated ==
  [][ /\ \A q \in BagToSet(reqs) :
           LoginToken(q) =>
             /\ LiveUser(q.u)
             /\ users[q.u].email = q.email
             /\ HashCheck(q.p, passwords[q.u])
             /\ users[q.u].verified
             /\ users[q.u].active
      /\ \A u \in UserIds :
           (users[u].present /\ ~users[u].verified /\ users'[u].verified)
             => last' = [Resp("verifyEmail", 200) EXCEPT !.val = <<users[u].email>>]
    ]_vars

\* C26 witness: the user that registered has verified its email and holds a
\* token that login issued.
C26_Witness ==
  /\ last.op = "login" /\ last.status = 200
  /\ users[2].present /\ users[2].verified /\ tokens[2] > 0
  /\ NewEmail \notin email_verification_tokens
  /\ attempts[NewEmail] = 0

\* ------------------------------------------------------------------------
\* SpecReset: the forgot-password and reset-password endpoints and login,
\* taken by concurrent requests.  A reset token is the number of the link it
\* was made for; token 0 is a string no link was made with.
\* ------------------------------------------------------------------------
MaxLinks == 2

\* a forgot-password endpoint that tells a caller the email is unknown
SendPasswordResetLinkRevealing(email) ==
  /\ password_reset_tokens[email].issued < MaxLinks
  /\ IF UserByEmail(email) = 0
     THEN /\ Answer([Resp("forgotPassword", 404) EXCEPT !.val = <<email, "false">>])
          /\ UNCHANGED password_reset_tokens
     ELSE /\ password_reset_tokens' =
               [password_reset_tokens EXCEPT ![email] =
                  [token |-> @.issued + 1, expired |-> FALSE, issued |-> @.issued + 1]]
          /\ Answer([Resp("forgotPassword", 200) EXCEPT !.val = <<email, "true">>])
  /\ UNCHANGED <<roles, roleSeq, permission_role, role_user, users, tokens, cache, attempts,
                 auditVars, settingVars, frontVars, passwords, email_verification_tokens,
                 password_checks, clock>>

\* AuthController::forgotPassword and AuthService::sendPasswordResetLink: the
\* user lookup, updateOrInsert of the token row, the result and the response
SendPasswordResetLink(email) ==
  /\ password_reset_tokens[email].issued < MaxLinks
  /\ IF UserByEmail(email) = 0
     THEN /\ Answer([Resp("forgotPassword", 200) EXCEPT !.val = <<email, "true">>])
          /\ UNCHANGED password_reset_tokens
     ELSE /\ password_reset_tokens' =
               [password_reset_tokens EXCEPT ![email] =
                  [token |-> @.issued + 1, expired |-> FALSE, issued |-> @.issued + 1]]
          /\ Answer([Resp("forgotPassword", 200) EXCEPT !.val = <<email, "true">>])
  /\ UNCHANGED <<roles, roleSeq, permission_role, role_user, users, tokens, cache, attempts,
                 auditVars, settingVars, frontVars, passwords, email_verification_tokens,
                 password_checks, clock>>

\* PASSWORD_RESET_EXPIRATION minutes pass after the row of `email` was written
ResetTokenExpires(email) ==
  /\ password_reset_tokens[email].token # 0
  /\ ~password_reset_tokens[email].expired
  /\ password_reset_tokens' = [password_reset_tokens EXCEPT ![email].expired = TRUE]
  /\ UNCHANGED <<roles, roleSeq, permission_role, role_user, users, tokens, cache, attempts,
                 auditVars, settingVars, frontVars, passwords, email_verification_tokens,
                 password_checks, clock, reqs, last>>

ResetResp(status, email, token) ==
  [Resp("resetPassword", status) EXCEPT !.val = <<email, ToString(token)>>]

\* AuthService::resetPassword up to the user lookup: the row with the email and
\* the token, the expiry check (an expired row is deleted), the user
ResetPasswordFind(token, email, password) ==
  LET row == password_reset_tokens[email]
  IN /\ IF row.token = 0 \/ row.token # token
        THEN Answer(ResetResp(400, email, token)) /\ UNCHANGED password_reset_tokens
        ELSE IF row.expired
        THEN /\ password_reset_tokens' =
                  [password_reset_tokens EXCEPT ![email] = [NoResetToken EXCEPT !.issued = row.issued]]
             /\ Answer(ResetResp(400, email, token))
        ELSE IF UserByEmail(email) = 0
        THEN Answer(ResetResp(400, email, token)) /\ UNCHANGED password_reset_tokens
        ELSE /\ Begin("reset_save", [NoLoc EXCEPT !.email = email, !.n = token, !.p = password,
                                                  !.u = UserByEmail(email)])
             /\ UNCHANGED password_reset_tokens
     /\ UNCHANGED <<roles, roleSeq, permission_role, role_user, users, tokens, cache, attempts,
                    auditVars, settingVars, frontVars, passwords, email_verification_tokens,
                    password_checks, clock>>

\* $user->password = Hash::make($password); $user->save()
ResetPasswordSave(q) ==
  /\ At(q, "reset_save")
  /\ passwords' = [passwords EXCEPT ![q.u] = HashMake(q.p)]
  /\ Goto(q, "reset_delete", q)
  /\ UNCHANGED <<roles, roleSeq, permission_role, role_user, users, tokens, cache, attempts,
                 auditVars, settingVars, frontVars, email_verification_tokens,
                 password_reset_tokens, password_checks, clock>>

\* DB::table('password_reset_tokens')->where('email', $email)->delete()
ResetPasswordDelete(q) ==
  /\ At(q, "reset_delete")
  /\ password_reset_tokens' =
       [password_reset_tokens EXCEPT ![q.email] = [NoResetToken EXCEPT !.issued = password_reset_tokens[q.email].issued]]
  /\ Goto(q, "reset_revoke", q)
  /\ UNCHANGED <<roles, roleSeq, permission_role, role_user, users, tokens, cache, attempts,
                 auditVars, settingVars, frontVars, passwords, email_verification_tokens,
                 password_checks, clock>>

\* $user->tokens()->delete(), and the response
ResetPasswordRevoke(q) ==
  /\ At(q, "reset_revoke")
  /\ tokens' = [tokens EXCEPT ![q.u] = 0]
  /\ Finish(q, ResetResp(200, q.email, q.n))
  /\ UNCHANGED <<roles, roleSeq, permission_role, role_user, users, cache, otherVars>>

NextReset ==
  \/ \E email \in Emails : SendPasswordResetLink(email)
  \/ ResetTokenExpires(AdminEmail)
  \/ \E token \in 0..MaxLinks : ResetPasswordFind(token, AdminEmail, "newpass456")
  \/ \E q \in BagToSet(reqs) : ResetPasswordSave(q)
  \/ \E q \in BagToSet(reqs) : ResetPasswordDelete(q)
  \/ \E q \in BagToSet(reqs) : ResetPasswordRevoke(q)
  \/ \E password \in Passwords : reqs = EmptyBag /\ LoginAttempt(AdminEmail, password)
  \/ \E q \in BagToSet(reqs) : LoginCredentials(q)
  \/ \E q \in BagToSet(reqs) : IncrementPut(q)
  \/ \E q \in BagToSet(reqs) : LoginToken(q)

SpecReset == Init /\ [][NextReset]_vars

\* C27: sendPasswordResetLink(email) returns true and the forgot-password
\* endpoint gives the same response whether or not a user with the email
\* exists: the response is a function of the email alone.
C27_ResetLinkSameResponse ==
  [][ \A email \in Emails :
        SendPasswordResetLink(email) =>
          last' = [Resp("forgotPassword", 200) EXCEPT !.val = <<email, "true">>]
    ]_vars

\* C27 witness: the endpoint has answered for an email that no user has, in a
\* state where a link was made for the admin, whose email a user has.
C27_Witness ==
  /\ last = [Resp("forgotPassword", 200) EXCEPT !.val = <<NewEmail, "true">>]
  /\ UserByEmail(NewEmail) = 0
  /\ password_reset_tokens[NewEmail].token = 0
  /\ password_reset_tokens[AdminEmail].token # 0

\* the resetPassword calls in flight that have passed the token check with
\* the token `token` of `email`
PastTokenCheck(email, token) ==
  BagCardinality([q \in {x \in BagToSet(reqs) :
                          /\ x.pc \in {"reset_save", "reset_delete", "reset_revoke"}
                          /\ x.email = email /\ x.n = token} |-> reqs[q]])

\* C28: for one issued reset token at most one resetPassword call succeeds,
\* under any interleaving (a call that has passed the token check succeeds, so
\* at most one call is past it per token); a successful call leaves no reset
\* token for the email and no session token of the user; a call with an
\* unknown or expired token fails without changing the password.
C28_ResetTokenSingleUse ==
  [][ /\ \A token \in 1..MaxLinks : PastTokenCheck(AdminEmail, token)' <= 1
      /\ \A q \in BagToSet(reqs) :
           ResetPasswordRevoke(q) =>
             (password_reset_tokens'[q.email].token = 0 /\ tokens'[q.u] = 0)
      /\ \A token \in 0..MaxLinks :
           (/\ ResetPasswordFind(token, AdminEmail, "newpass456")
            /\ (password_reset_tokens[AdminEmail].token # token
                  \/ password_reset_tokens[AdminEmail].expired))
             => (last'.status = 400 /\ reqs' = reqs /\ passwords' = passwords)
    ]_vars

\* ------------------------------------------------------------------------
\* SpecAuthStore: the actions of useAuthStore, one after the other from
\* initialState.  What the API answered is an input of login and register;
\* `last` keeps the action and the status it got (0: no request made).
\* ------------------------------------------------------------------------
\* what the frontend's actions leave alone
backendVars == <<roles, roleSeq, permission_role, role_user, users, tokens, cache, attempts,
                 auditVars, settingVars, authVars, clock, reqs>>

\* login: the response data destructured (permissions = [] when absent); a
\* failed request or a response without user or token throws, the state kept
StoreLogin(status, user, token, permissions) ==
  /\ auth_store' = IF status # 200 \/ user = NullId \/ token = ""
                   THEN auth_store
                   ELSE [user |-> user, token |-> token, isAuthenticated |-> TRUE,
                         permissions |-> permissions]
  /\ last' = [Resp("store.login", status) EXCEPT !.val = permissions]
  /\ UNCHANGED backendVars

\* logout: the state is cleared whatever the endpoint answered
StoreLogout(status) ==
  /\ auth_store' = [user |-> NullId, token |-> "", isAuthenticated |-> FALSE,
                    permissions |-> <<>>]
  /\ last' = Resp("store.logout", status)
  /\ UNCHANGED backendVars

\* register: no authenticated state is set
StoreRegister(status) ==
  /\ last' = Resp("store.register", status)
  /\ UNCHANGED <<backendVars, auth_store>>

\* setUser
SetUser(user) ==
  /\ auth_store' = [auth_store EXCEPT !.user = user,
                      !.isAuthenticated = user # NullId /\ auth_store.token # ""]
  /\ last' = Resp("store.setUser", 0)
  /\ UNCHANGED backendVars

\* setToken
SetToken(token) ==
  /\ auth_store' = [auth_store EXCEPT !.token = token,
                      !.isAuthenticated = token # "" /\ auth_store.user # NullId]
  /\ last' = Resp("store.setToken", 0)
  /\ UNCHANGED backendVars

\* loadFromStorage
LoadFromStorage ==
  /\ auth_store' = [auth_store EXCEPT
                      !.isAuthenticated = auth_store.token # "" /\ auth_store.user # NullId]
  /\ last' = Resp("store.loadFromStorage", 0)
  /\ UNCHANGED backendVars

NextAuthStore ==
  \/ \E status \in {200, 401}, user \in {NullId, 1}, token \in {"", "token"},
        permissions \in HeldLists : StoreLogin(status, user, token, permissions)
  \/ \E status \in {200, 401} : StoreLogout(status)
  \/ \E status \in {201, 422} : StoreRegister(status)
  \/ \E user \in {NullId} \cup UserIds : SetUser(user)
  \/ \E token \in {"", "token"} : SetToken(token)
  \/ LoadFromStorage

SpecAuthStore == Init /\ [][NextAuthStore]_vars

\* C30: after any sequence of login, logout, register, setUser, setToken and
\* loadFromStorage from the initial state, isAuthenticated is true exactly
\* when token and user are both non-null, and whenever isAuthenticated is
\* false the permissions list is empty, so that hasPermission is false for
\* every permission name.
C30_AuthStoreConsistent ==
  /\ auth_store.isAuthenticated <=> (auth_store.token # "" /\ auth_store.user # NullId)
  /\ ~auth_store.isAuthenticated =>
       /\ auth_store.permissions = <<>>
       /\ \A p \in PermIds : ~storeHasPermission(PermName(p))

====
